---- MODULE Spec2Model ----
(***************************************************************************)
(* A model of the arka brick-breaker's simulation engine: the Paddle,      *)
(* Brick, Ball, PowerUp and Enemy entities, the collision detector and the *)
(* Game driver with its fixed-timestep loop.                               *)
(*                                                                         *)
(* Arithmetic.  The source computes in IEEE doubles; the model computes in *)
(* integers with these units:                                              *)
(*   lengths     1/60 pixel   (Px(n) is n pixels)                          *)
(*   velocities  pixel/second (one fixed tick of 1/60 s moves a body with  *)
(*               velocity v by exactly v length units)                     *)
(*   times       1/60 ms      (Ms(n) is n milliseconds; the fixed tick     *)
(*               1000/60 ms is exactly 1000 time units)                    *)
(*   angles      whole degrees, sines and cosines in thousandths           *)
(***************************************************************************)
EXTENDS Integers, Sequences, FiniteSets, TLC

VARIABLES
    game,         \* the Game object: state, score, lives, level, the entities, and
                  \* timers, the due times of the setTimeout callbacks of its paddle
    input,        \* the InputHandler object: keys, mouseX, mouseActive,
                  \* mouseClicked
    lastTime,     \* Game.lastTime
    accumulator,  \* Game.accumulator
    pc,           \* position of the gameLoop callback: "idle" or "ticking"
    now,          \* the wall clock (Date.now, setTimeout, rAF timestamps)
    ret,          \* what the last gameLoop callback found on entry (accumulator,
                  \* elapsed time, ticks); where one entity is driven alone,
                  \* what the last operation returned or was
    rnd,          \* the values Math.random had for the last tick
    ticks,        \* number of Game.update calls made so far; where one entity
                  \* is driven alone, the number of operations called
    waited,       \* number of those made with no ball in flight
    dropped,      \* number of callbacks gameLoop gave up as stale
    seen          \* per ball, the bricks it overlapped when the last
                  \* update() reached checkCollisions()

vars == <<game, input, lastTime, accumulator, pc, now, ret, rnd, ticks, waited, seen, dropped>>

-----------------------------------------------------------------------------
(* CONFIG (constants.js)                                                   *)

CANVAS_WIDTH == 1920
CANVAS_HEIGHT == 1080
TARGET_FPS == 60
FRAME_TIME == 1000
PADDLE_WIDTH == 120
PADDLE_HEIGHT == 20
PADDLE_Y_POSITION == 60
PADDLE_SPEED == 400
BALL_SIZE == 8
BASE_SPEED == 400
MAX_SPEED == 800
BRICK_WIDTH == 188
BRICK_HEIGHT == 48
BRICK_PADDING == 4
BRICK_OFFSET_X == 192
BRICK_OFFSET_Y == 60
POWERUP_WIDTH == 24
POWERUP_HEIGHT == 12
POWERUP_SPEED == 150
POWERUP_DURATION == 10000
ENEMY_WIDTH == 40
ENEMY_HEIGHT == 40
ENEMY_SPEED == 80
APPEAR_DELAY == 30000
MAX_LEVEL_1 == 1
MAX_LEVEL_2_3 == 2
MAX_LEVEL_4_PLUS == 3
INITIAL_LIVES == 3
MAX_BOUNCE_ANGLE == 60
STALE_DELTA == 100
speedIncreaseThreshold == 10

Px(n) == n * TARGET_FPS
Ms(n) == n * TARGET_FPS

Min(a, b) == IF a < b THEN a ELSE b
Max(a, b) == IF a > b THEN a ELSE b
Abs(a) == IF a < 0 THEN -a ELSE a

-----------------------------------------------------------------------------
(* Paddle (paddle.js).  y, height, speed and baseWidth never change.       *)

PaddleY == Px(CANVAS_HEIGHT - PADDLE_Y_POSITION)
baseWidth == Px(PADDLE_WIDTH)

Paddle_new ==
    [x |-> Px(CANVAS_WIDTH) \div 2 - Px(PADDLE_WIDTH) \div 2,
     width |-> Px(PADDLE_WIDTH),
     hasLaser |-> FALSE,
     laserTimer |-> 0]

Paddle_reset(p) ==
    [x |-> Px(CANVAS_WIDTH) \div 2 - baseWidth \div 2,
     width |-> baseWidth,
     hasLaser |-> FALSE,
     laserTimer |-> 0]

\* Math.max(0, Math.min(CANVAS_WIDTH - width, x))
Paddle_clamp(x, width) == Max(0, Min(Px(CANVAS_WIDTH) - width, x))

\* move(direction, deltaTime): deltaTime in sixtieths of a second
Paddle_move(p, direction, dt) ==
    IF direction = 0 THEN p
    ELSE [p EXCEPT !.x = Paddle_clamp(p.x + direction * PADDLE_SPEED * dt, p.width)]

Paddle_moveTo(p, targetX) ==
    [p EXCEPT !.x = Paddle_clamp(targetX - p.width \div 2, p.width)]

\* extend(duration): the width grows at once, x is left as it is; the
\* setTimeout it schedules is recorded by the caller in game.timers
Paddle_extend(p) == [p EXCEPT !.width = (baseWidth * 3) \div 2]

\* the callback Paddle.extend hands to setTimeout
Paddle_extendTimeout(p) ==
    [p EXCEPT !.width = baseWidth,
              !.x = Min(p.x, Px(CANVAS_WIDTH) - baseWidth)]

Paddle_enableLaser(p, duration) ==
    [p EXCEPT !.hasLaser = TRUE, !.laserTimer = duration]

\* update(deltaTime): deltaTime in time units
Paddle_update(p, dt) ==
    IF p.hasLaser
    THEN [p EXCEPT !.laserTimer = p.laserTimer - dt,
                   !.hasLaser = ~(p.laserTimer - dt <= 0)]
    ELSE p

\* getHitPosition(ballX), in thousandths: ((ballX - x) / width - 0.5) * 2
Paddle_getHitPosition_fromLeft(p, ballX) == (2000 * (ballX - p.x)) \div p.width

Paddle_getHitPosition(p, ballX) == (2000 * (ballX - p.x)) \div p.width - 1000

-----------------------------------------------------------------------------
(* Brick (brick.js, kept in input.js)                                      *)

Brick_new(x, y, type) ==
    [x |-> x, y |-> y, type |-> type, active |-> TRUE,
     hits |-> CASE type = "single" -> 1
                [] type = "double" -> 2
                [] type = "triple" -> 3
                [] type = "indestructible" -> -1
                [] OTHER -> 1,
     maxHits |-> CASE type = "single" -> 1
                   [] type = "double" -> 2
                   [] type = "triple" -> 3
                   [] type = "indestructible" -> -1
                   [] OTHER -> 1,
     score |-> CASE type = "single" -> 10
                 [] type = "double" -> 20
                 [] type = "triple" -> 30
                 [] type = "indestructible" -> 0
                 [] OTHER -> 10,
     indestructible |-> (type = "indestructible")]

\* hit(): the brick afterwards and the value returned
Brick_hit(b) ==
    IF b.indestructible THEN [brick |-> b, destroyed |-> FALSE]
    ELSE IF b.hits - 1 <= 0
         THEN [brick |-> [b EXCEPT !.hits = b.hits - 1, !.active = FALSE],
               destroyed |-> TRUE]
         ELSE [brick |-> [b EXCEPT !.hits = b.hits - 1], destroyed |-> FALSE]

Brick_canDropPowerUp(b) == ~b.indestructible /\ b.active

-----------------------------------------------------------------------------
(* Math.sin / Math.cos / Math.atan2 on whole degrees, in thousandths       *)

SinTab ==
    <<0, 17, 35, 52, 70, 87, 105, 122, 139, 156, 174, 191, 208, 225, 242,
      259, 276, 292, 309, 326, 342, 358, 375, 391, 407, 423, 438, 454, 469,
      485, 500, 515, 530, 545, 559, 574, 588, 602, 616, 629, 643, 656, 669,
      682, 695, 707, 719, 731, 743, 755, 766, 777, 788, 799, 809, 819, 829,
      839, 848, 857, 866, 875, 883, 891, 899, 906, 914, 921, 927, 934, 940,
      946, 951, 956, 961, 966, 970, 974, 978, 982, 985, 988, 990, 993, 995,
      996, 998, 999, 999, 1000, 1000>>

NormDeg(a) == ((a + 180) % 360) - 180

SinDeg(a) ==
    LET n == NormDeg(a)
        m == Abs(n)
        v == IF m <= 90 THEN SinTab[m + 1] ELSE SinTab[180 - m + 1]
    IN IF n < 0 THEN -v ELSE v

CosDeg(a) == SinDeg(a + 90)

\* n / d rounded to the nearest integer
Round(n, d) == (2 * n + d) \div (2 * d)

\* Math.atan2(dy, dx) to the nearest degree: the direction in the quadrant of
\* (dx, dy) whose unit vector is closest to parallel with it
Atan2Deg(dy, dx) ==
    IF dx = 0 /\ dy = 0 THEN 0
    ELSE LET quadrant == {a \in -179..180 :
                             /\ dx >= 0 => CosDeg(a) >= 0
                             /\ dx <= 0 => CosDeg(a) <= 0
                             /\ dy >= 0 => SinDeg(a) >= 0
                             /\ dy <= 0 => SinDeg(a) <= 0}
         IN CHOOSE a \in quadrant :
              \A b \in quadrant :
                 Abs(CosDeg(a) * dy - SinDeg(a) * dx)
                    <= Abs(CosDeg(b) * dy - SinDeg(b) * dx)

-----------------------------------------------------------------------------
(* Ball (ball.js).  size, baseSpeed and the rendering trail are left out   *)
(* of the record: size and baseSpeed never change, the trail is read by    *)
(* render only.                                                            *)

BallR == Px(BALL_SIZE) \div 2

Ball_new(x, y) ==
    [x |-> x, y |-> y, speed |-> BASE_SPEED, dx |-> 0, dy |-> 0,
     state |-> "attached", active |-> TRUE]

Ball_setVelocityAngle(b, angle) ==
    [b EXCEPT !.dx = Round(SinDeg(angle) * b.speed, 1000),
              !.dy = -Round(CosDeg(angle) * b.speed, 1000)]

Ball_launch(b, angle) ==
    IF b.state # "attached" THEN b
    ELSE [b EXCEPT !.state = "launched",
                   !.dx = Round(SinDeg(angle) * b.speed, 1000),
                   !.dy = -Round(CosDeg(angle) * b.speed, 1000)]

Ball_launchStraight(b) == Ball_launch(b, 0)

\* update(deltaTime) for the fixed step of 1/60 s
Ball_update(b) ==
    IF b.state # "launched" THEN b
    ELSE
      LET x1 == b.x + b.dx
          y1 == b.y + b.dy
          left == x1 <= BallR
          right == ~left /\ x1 >= Px(CANVAS_WIDTH) - BallR
          top == y1 <= BallR
          x2 == IF left THEN BallR
                ELSE IF right THEN Px(CANVAS_WIDTH) - BallR ELSE x1
          y2 == IF top THEN BallR ELSE y1
      IN [b EXCEPT !.x = x2,
                   !.y = y2,
                   !.dx = IF left THEN Abs(b.dx)
                          ELSE IF right THEN -Abs(b.dx) ELSE b.dx,
                   !.dy = IF top THEN Abs(b.dy) ELSE b.dy,
                   !.active = IF y2 > Px(CANVAS_HEIGHT) + Px(BALL_SIZE)
                              THEN FALSE ELSE b.active]

Ball_cappedSpeed_uncapped(speed, pct) == (speed * pct) \div 100

\* Math.min(speed * multiplier, MAX_SPEED), the multiplier in hundredths
Ball_cappedSpeed(speed, pct) == Min((speed * pct) \div 100, MAX_SPEED)

Ball_increaseSpeed_noQuarterTurn(b, pct) ==
    LET currentAngle == Atan2Deg(b.dy, b.dx)
        s == Ball_cappedSpeed(b.speed, pct)
    IN [b EXCEPT !.speed = s,
                 !.dx = Round(SinDeg(currentAngle) * s, 1000),
                 !.dy = -Round(CosDeg(currentAngle) * s, 1000)]

Ball_increaseSpeed(b, pct) ==
    LET currentAngle == Atan2Deg(b.dy, b.dx)
        s == Ball_cappedSpeed(b.speed, pct)
    IN [b EXCEPT !.speed = s,
                 !.dx = Round(SinDeg(currentAngle + 90) * s, 1000),
                 !.dy = -Round(CosDeg(currentAngle + 90) * s, 1000)]

Ball_getBounds(b) ==
    [x |-> b.x - BallR, y |-> b.y - BallR,
     width |-> Px(BALL_SIZE), height |-> Px(BALL_SIZE)]

-----------------------------------------------------------------------------
(* CollisionDetector (collision.js)                                        *)

checkAABB(rect1, rect2) ==
    /\ rect1.x < rect2.x + rect2.width
    /\ rect1.x + rect1.width > rect2.x
    /\ rect1.y < rect2.y + rect2.height
    /\ rect1.y + rect1.height > rect2.y

NoCollision == [collided |-> FALSE]

checkCircleRect_horizontalOnTie(circle, rect) ==
    LET closestX == Max(rect.x, Min(circle.x, rect.x + rect.width))
        closestY == Max(rect.y, Min(circle.y, rect.y + rect.height))
        dx == circle.x - closestX
        dy == circle.y - closestY
        overlapX == circle.radius - Abs(dx)
        overlapY == circle.radius - Abs(dy)
        side ==
            IF circle.y < rect.y THEN "top"
            ELSE IF circle.y > rect.y + rect.height THEN "bottom"
            ELSE IF circle.x < rect.x THEN "left"
            ELSE IF circle.x > rect.x + rect.width THEN "right"
            ELSE IF overlapX <= overlapY
                 THEN (IF 2 * circle.x < 2 * rect.x + rect.width
                       THEN "left" ELSE "right")
                 ELSE (IF 2 * circle.y < 2 * rect.y + rect.height
                       THEN "top" ELSE "bottom")
    IN IF /\ Abs(dx) < circle.radius
          /\ Abs(dy) < circle.radius
          /\ dx * dx + dy * dy < circle.radius * circle.radius
       THEN [collided |-> TRUE, side |-> side, dx |-> dx, dy |-> dy]
       ELSE NoCollision

checkCircleRect_nearestEdge(circle, rect) ==
    LET closestX == Max(rect.x, Min(circle.x, rect.x + rect.width))
        closestY == Max(rect.y, Min(circle.y, rect.y + rect.height))
        dx == circle.x - closestX
        dy == circle.y - closestY
        overlapX == Min(circle.x - rect.x, rect.x + rect.width - circle.x)
        overlapY == Min(circle.y - rect.y, rect.y + rect.height - circle.y)
        side ==
            IF circle.y < rect.y THEN "top"
            ELSE IF circle.y > rect.y + rect.height THEN "bottom"
            ELSE IF circle.x < rect.x THEN "left"
            ELSE IF circle.x > rect.x + rect.width THEN "right"
            ELSE IF overlapX < overlapY
                 THEN (IF 2 * circle.x < 2 * rect.x + rect.width
                       THEN "left" ELSE "right")
                 ELSE (IF 2 * circle.y < 2 * rect.y + rect.height
                       THEN "top" ELSE "bottom")
    IN IF /\ Abs(dx) < circle.radius
          /\ Abs(dy) < circle.radius
          /\ dx * dx + dy * dy < circle.radius * circle.radius
       THEN [collided |-> TRUE, side |-> side, dx |-> dx, dy |-> dy]
       ELSE NoCollision

\* distance < radius is decided on the squares, exactly
checkCircleRect(circle, rect) ==
    LET closestX == Max(rect.x, Min(circle.x, rect.x + rect.width))
        closestY == Max(rect.y, Min(circle.y, rect.y + rect.height))
        dx == circle.x - closestX
        dy == circle.y - closestY
        overlapX == circle.radius - Abs(dx)
        overlapY == circle.radius - Abs(dy)
        side ==
            IF circle.y < rect.y THEN "top"
            ELSE IF circle.y > rect.y + rect.height THEN "bottom"
            ELSE IF circle.x < rect.x THEN "left"
            ELSE IF circle.x > rect.x + rect.width THEN "right"
            ELSE IF overlapX < overlapY
                 THEN (IF 2 * circle.x < 2 * rect.x + rect.width
                       THEN "left" ELSE "right")
                 ELSE (IF 2 * circle.y < 2 * rect.y + rect.height
                       THEN "top" ELSE "bottom")
    IN IF /\ Abs(dx) < circle.radius
          /\ Abs(dy) < circle.radius
          /\ dx * dx + dy * dy < circle.radius * circle.radius
       THEN [collided |-> TRUE, side |-> side, dx |-> dx, dy |-> dy]
       ELSE NoCollision

Brick_getBounds(b) ==
    [x |-> b.x, y |-> b.y, width |-> Px(BRICK_WIDTH), height |-> Px(BRICK_HEIGHT)]

checkBallBrick_anyBrick(ball, brick) ==
    checkCircleRect([x |-> ball.x, y |-> ball.y, radius |-> BallR],
                    Brick_getBounds(brick))

checkBallBrick(ball, brick) ==
    IF ~brick.active THEN NoCollision
    ELSE checkCircleRect([x |-> ball.x, y |-> ball.y, radius |-> BallR],
                         Brick_getBounds(brick))

Paddle_getBounds(p) ==
    [x |-> p.x, y |-> PaddleY, width |-> p.width, height |-> Px(PADDLE_HEIGHT)]

checkBallPaddle_upwardToo(ball, paddle) ==
    IF ~checkAABB(Ball_getBounds(ball), Paddle_getBounds(paddle)) THEN NoCollision
    ELSE LET hitPos == Paddle_getHitPosition(paddle, ball.x)
         IN [collided |-> TRUE,
             angle |-> Round(hitPos * MAX_BOUNCE_ANGLE, 1000),
             hitPosition |-> hitPos]

\* the bounce angle in whole degrees: hitPos * MAX_BOUNCE_ANGLE
checkBallPaddle(ball, paddle) ==
    IF ~checkAABB(Ball_getBounds(ball), Paddle_getBounds(paddle)) THEN NoCollision
    ELSE IF ball.dy <= 0 THEN NoCollision
    ELSE LET hitPos == Paddle_getHitPosition(paddle, ball.x)
         IN [collided |-> TRUE,
             angle |-> Round(hitPos * MAX_BOUNCE_ANGLE, 1000),
             hitPosition |-> hitPos]

resolveBallBrick_reflectOnly(ball, brick, collision) ==
    IF ~collision.collided THEN ball
    ELSE IF collision.side \in {"top", "bottom"}
    THEN [ball EXCEPT !.dy = -ball.dy]
    ELSE [ball EXCEPT !.dx = -ball.dx]

resolveBallBrick(ball, brick, collision) ==
    IF ~collision.collided THEN ball
    ELSE IF collision.side \in {"top", "bottom"}
    THEN [ball EXCEPT !.dy = -ball.dy,
                      !.y = IF collision.side = "top"
                            THEN brick.y - BallR
                            ELSE brick.y + Px(BRICK_HEIGHT) + BallR]
    ELSE [ball EXCEPT !.dx = -ball.dx,
                      !.x = IF collision.side = "left"
                            THEN brick.x - BallR
                            ELSE brick.x + Px(BRICK_WIDTH) + BallR]

resolveBallPaddle(ball, paddle, collision) ==
    IF ~collision.collided THEN ball
    ELSE [Ball_setVelocityAngle(ball, collision.angle) EXCEPT
              !.y = PaddleY - BallR,
              !.speed = Ball_cappedSpeed(ball.speed, 102)]

-----------------------------------------------------------------------------
(* PowerUp (powerup.js, kept in input.js)                                  *)

POWERUP_TYPES == <<"E", "S", "M", "L">>

PowerUp_new(x, y, type) ==
    [x |-> x, y |-> y, type |-> type, state |-> "falling", active |-> TRUE]

PowerUp_update(p) ==
    IF p.state # "falling" THEN p
    ELSE IF p.y + POWERUP_SPEED > Px(CANVAS_HEIGHT)
         THEN [p EXCEPT !.y = p.y + POWERUP_SPEED,
                        !.state = "expired", !.active = FALSE]
         ELSE [p EXCEPT !.y = p.y + POWERUP_SPEED]

PowerUp_checkPaddleCollision(p, paddleBounds) ==
    /\ p.x < paddleBounds.x + paddleBounds.width
    /\ p.x + Px(POWERUP_WIDTH) > paddleBounds.x
    /\ p.y < paddleBounds.y + paddleBounds.height
    /\ p.y + Px(POWERUP_HEIGHT) > paddleBounds.y

-----------------------------------------------------------------------------
(* Enemy (enemy.js).  Times are wall-clock readings of Date.now();         *)
(* disappearTime = -1 stands for null.                                     *)

Enemy_new(x, y, t) ==
    [x |-> x, y |-> y, dx |-> ENEMY_SPEED, direction |-> 1,
     active |-> TRUE, visible |-> TRUE,
     appearTime |-> t, disappearTime |-> -1,
     animationFrame |-> 0, animationTimer |-> 0]

\* appear(): window is the draw 15000 + Math.random() * 10000, in ms
Enemy_appear(e, t, window) ==
    [e EXCEPT !.visible = TRUE, !.appearTime = t,
              !.disappearTime = t + Ms(window)]

Enemy_disappear(e) == [e EXCEPT !.visible = FALSE, !.disappearTime = -1]

Enemy_shouldAppear(e, t) == ~e.visible /\ t - e.appearTime >= Ms(APPEAR_DELAY)

Enemy_shouldDisappear(e, t) ==
    e.visible /\ e.disappearTime # -1 /\ t >= e.disappearTime

\* update(deltaTime) for the fixed step, at wall-clock time t
Enemy_update(e, t, window) ==
    IF ~e.visible
    THEN (IF Enemy_shouldAppear(e, t) THEN Enemy_appear(e, t, window) ELSE e)
    ELSE IF Enemy_shouldDisappear(e, t) THEN Enemy_disappear(e)
    ELSE
      LET x1 == e.x + e.dx
          left == x1 <= 0
          right == ~left /\ x1 + Px(ENEMY_WIDTH) >= Px(CANVAS_WIDTH)
          timer == e.animationTimer + FRAME_TIME
      IN [e EXCEPT
            !.x = IF left THEN 0
                  ELSE IF right THEN Px(CANVAS_WIDTH) - Px(ENEMY_WIDTH) ELSE x1,
            !.dx = IF left THEN Abs(e.dx)
                   ELSE IF right THEN -Abs(e.dx) ELSE e.dx,
            !.direction = IF left THEN 1 ELSE IF right THEN -1 ELSE e.direction,
            !.animationFrame = IF timer > Ms(200)
                               THEN (e.animationFrame + 1) % 4
                               ELSE e.animationFrame,
            !.animationTimer = IF timer > Ms(200) THEN 0 ELSE timer]

Enemy_hit(e) == [e EXCEPT !.active = FALSE]

\* deflectBall(ball): angle in degrees and direction are the two draws
Enemy_deflectBall(e, ball, angle, direction) ==
    IF ~e.visible \/ ~ball.active THEN ball
    ELSE [ball EXCEPT
            !.dx = Round(SinDeg(angle) * ball.speed, 1000) * direction,
            !.dy = -Abs(Round(CosDeg(angle) * ball.speed, 1000))]

Enemy_checkLaserCollision(e, laserX, laserY) ==
    IF ~e.visible THEN FALSE
    ELSE /\ laserX >= e.x
         /\ laserX <= e.x + Px(ENEMY_WIDTH)
         /\ laserY >= e.y
         /\ laserY <= e.y + Px(ENEMY_HEIGHT)

Enemy_checkBallCollision(e, ball) ==
    IF ~e.visible THEN FALSE
    ELSE LET bb == Ball_getBounds(ball)
         IN /\ e.x < bb.x + bb.width
            /\ e.x + Px(ENEMY_WIDTH) > bb.x
            /\ e.y < bb.y + bb.height
            /\ e.y + Px(ENEMY_HEIGHT) > bb.y

-----------------------------------------------------------------------------
(* LevelManager (levels.js)                                                *)

LEVEL_PATTERNS == <<
    <<<<"1","1","1","1","1","1","1","1">>,
      <<"1","1","1","1","1","1","1","1">>,
      <<"1","1","1","1","1","1","1","1">>,
      <<"1","1","1","1","1","1","1","1">>,
      <<"1","1","1","1","1","1","1","1">>,
      <<"1","1","2","3","3","2","1","1">>>>,
    <<<<"1"," ","1"," ","1"," ","1">>,
      <<" ","1"," ","1"," ","1"," ">>,
      <<"1"," ","2"," ","2"," ","1">>,
      <<" ","2"," ","2"," ","2"," ">>,
      <<"1"," ","2"," ","3"," ","1">>,
      <<" ","2"," ","3"," ","2"," ">>>>,
    <<<<"I","I"," "," "," "," ","I","I">>,
      <<"I","3","3"," "," ","3","3","I">>,
      <<"I","3","2"," "," ","2","3","I">>,
      <<"I","3","2"," "," ","2","3","I">>,
      <<"1","1","1","1","1","1","1","1">>,
      <<"2","2","2","2","2","2","2","2">>>>,
    <<<<"1","1","1"," "," ","1","1","1">>,
      <<"1"," "," "," "," ","1"," "," ">>,
      <<"1"," ","I"," "," ","I"," ","1">>,
      <<"1","1","1"," "," ","1","1","1">>,
      <<"2","2","2"," "," ","2","2","2">>,
      <<"3","3","3","3","3","3","3","3">>>>,
    <<<<"1","1","1","1","1","1","1","1">>,
      <<"1","I"," "," "," "," ","I","1">>,
      <<"1","I"," ","3","3"," ","I","1">>,
      <<"1","I"," ","3","3"," ","I","1">>,
      <<"1","I"," "," "," "," ","I","1">>,
      <<"1","1","1","1","1","1","1","1">>>>,
    <<<<" "," ","1","1"," "," ">>,
      <<" "," ","1","1"," "," ">>,
      <<"1","1","1","1","1","1">>,
      <<"1","1","2","2","1","1">>,
      <<"1","1","2","2","1","1">>,
      <<" "," ","1","1"," "," ">>>>,
    <<<<"I"," "," ","I"," "," ","I"," "," ","I">>,
      <<"I","3","3","I"," "," ","I","3","3","I">>,
      <<"1","1","1","1","1","1","1","1">>,
      <<"1","2","2","2","2","2","2","1">>,
      <<"1","2","3","3","3","3","2","1">>,
      <<"1","2","3","3","3","3","2","1">>>>,
    <<<<" "," ","1","1"," "," ">>,
      <<" ","1","2","2","1"," ">>,
      <<"1","2","3","3","2","1">>,
      <<"1","2","3","3","2","1">>,
      <<" ","1","2","2","1"," ">>,
      <<" "," ","1","1"," "," ">>>>,
    <<<<"1"," ","1"," ","1"," ","1">>,
      <<" ","1"," ","1"," ","1"," ">>,
      <<"2"," ","2"," ","2"," ","2">>,
      <<" ","2"," ","2"," ","2"," ">>,
      <<"3"," ","3"," ","3"," ","3">>,
      <<" ","3"," ","3"," ","3"," ">>>>,
    <<<<"I","I","I","I","I","I","I","I">>,
      <<"I","3","3","3","3","3","3","I">>,
      <<"I","3","2","2","2","2","3","I">>,
      <<"I","3","2","1","1","2","3","I">>,
      <<"I","3","2"," "," ","2","3","I">>,
      <<"I","I","I","I"," "," ","I","I","I","I">>>>>>

totalLevels == Len(LEVEL_PATTERNS)

brickType(char) ==
    CASE char = "1" -> "single"
      [] char = "2" -> "double"
      [] char = "3" -> "triple"
      [] char = "I" -> "indestructible"
      [] OTHER -> "single"

\* the bricks of one pattern row, left to right, blanks skipped
RECURSIVE rowBricks(_, _, _)
rowBricks(row, rowIndex, colIndex) ==
    IF colIndex > Len(row) THEN <<>>
    ELSE IF row[colIndex] = " " THEN rowBricks(row, rowIndex, colIndex + 1)
    ELSE <<Brick_new(
             Px(BRICK_OFFSET_X + (colIndex - 1) * (BRICK_WIDTH + BRICK_PADDING)),
             Px(BRICK_OFFSET_Y + (rowIndex - 1) * (BRICK_HEIGHT + BRICK_PADDING)),
             brickType(row[colIndex]))>>
         \o rowBricks(row, rowIndex, colIndex + 1)

RECURSIVE patternBricks(_, _)
patternBricks(pattern, rowIndex) ==
    IF rowIndex > Len(pattern) THEN <<>>
    ELSE rowBricks(pattern[rowIndex], rowIndex, 1)
         \o patternBricks(pattern, rowIndex + 1)

LevelManager_loadLevel(levelIndex) ==
    patternBricks(LEVEL_PATTERNS[(levelIndex % totalLevels) + 1], 1)

LevelManager_isLevelComplete_allInactive(bricks) ==
    \A i \in 1..Len(bricks) : ~bricks[i].active

LevelManager_isLevelComplete(bricks) ==
    \A i \in 1..Len(bricks) : ~bricks[i].active \/ bricks[i].indestructible

LevelManager_getActiveBricks(bricks) ==
    {i \in 1..Len(bricks) : bricks[i].active}

-----------------------------------------------------------------------------
(* Game (game.js).  The operators below take and return the Game record;   *)
(* t is the reading of Date.now() and d the Math.random draws of the tick: *)
(*   d.drop     Math.random() < DROP_CHANCE                                *)
(*   d.type     index of the power-up type drawn by spawnPowerUp           *)
(*   d.angle    deflection angle drawn by Enemy.deflectBall, in degrees    *)
(*   d.dir      direction drawn by Enemy.deflectBall                       *)
(*   d.window   visible window drawn by Enemy.appear, in ms                *)
(* Every use of a draw inside one tick reads the same record.              *)

\* the constructor and init(), with no saved high score
Game_new ==
    [state |-> "menu", score |-> 0, highScore |-> 0,
     lives |-> INITIAL_LIVES, level |-> 0, bricksDestroyed |-> 0,
     paddle |-> Paddle_new, balls |-> <<>>, bricks |-> <<>>,
     powerUps |-> <<>>, enemies |-> <<>>, lasers |-> <<>>, timers |-> <<>>]

\* the InputHandler constructor; mouseX = -1 stands for null
Input_new ==
    [left |-> FALSE, right |-> FALSE, space |-> FALSE,
     mouseX |-> -1, mouseActive |-> FALSE, mouseClicked |-> FALSE]

Input_getPaddleDirection(inp) ==
    IF inp.left THEN -1 ELSE IF inp.right THEN 1 ELSE 0

Game_saveHighScore(g) ==
    IF g.score > g.highScore THEN [g EXCEPT !.highScore = g.score] ELSE g

Game_numEnemies(level) ==
    IF level >= 3 THEN MAX_LEVEL_4_PLUS
    ELSE IF level >= 1 THEN MAX_LEVEL_2_3
    ELSE MAX_LEVEL_1

\* setupEnemies(): every enemy is constructed (visible), the first one appears
Game_setupEnemies(level, t, d) ==
    LET numEnemies == Game_numEnemies(level)
        spacing == Px(CANVAS_WIDTH) \div (numEnemies + 1)
    IN [i \in 1..numEnemies |->
          LET e == Enemy_new(spacing * i - Px(ENEMY_WIDTH) \div 2,
                             Px(150 + (i - 1) * 50), t)
          IN IF i = 1 THEN Enemy_appear(e, t, d.window) ELSE e]

Game_loadLevel(g, levelIndex, t, d) ==
    [g EXCEPT !.level = levelIndex,
              !.bricks = LevelManager_loadLevel(levelIndex),
              !.paddle = Paddle_reset(g.paddle),
              !.balls = <<Ball_new(Px(CANVAS_WIDTH) \div 2, PaddleY - Px(10))>>,
              !.enemies = Game_setupEnemies(levelIndex, t, d),
              !.powerUps = <<>>,
              !.lasers = <<>>]

Game_startGame_keepScore(g, t, d) ==
    Game_loadLevel([g EXCEPT !.state = "playing", !.lives = INITIAL_LIVES,
                             !.level = 0, !.bricksDestroyed = 0],
                   0, t, d)

Game_startGame(g, t, d) ==
    Game_loadLevel([g EXCEPT !.state = "playing", !.score = 0,
                             !.lives = INITIAL_LIVES, !.level = 0,
                             !.bricksDestroyed = 0],
                   0, t, d)

Game_handleSpace_lastBall(g, t, d) ==
    IF g.state \in {"menu", "gameover"} THEN Game_startGame(g, t, d)
    ELSE IF g.state # "playing" THEN g
    ELSE IF Len(g.balls) > 0 /\ g.balls[Len(g.balls)].state = "attached"
         THEN [g EXCEPT !.balls[Len(g.balls)] = Ball_launchStraight(g.balls[Len(g.balls)])]
         ELSE g

\* handleSpace() and handleMouseClick() have the same body
Game_handleSpace(g, t, d) ==
    IF g.state \in {"menu", "gameover"} THEN Game_startGame(g, t, d)
    ELSE IF g.state # "playing" THEN g
    ELSE IF Len(g.balls) > 0 /\ g.balls[1].state = "attached"
         THEN [g EXCEPT !.balls[1] = Ball_launchStraight(g.balls[1])]
         ELSE g

Game_gameOver_noSave(g) == [g EXCEPT !.state = "gameover"]

Game_gameOver(g) == Game_saveHighScore([g EXCEPT !.state = "gameover"])

Game_loseLife_noGameOver(g) ==
    LET g1 == [g EXCEPT !.lives = g.lives - 1]
    IN [g1 EXCEPT
          !.balls = <<Ball_new(Px(CANVAS_WIDTH) \div 2, PaddleY - Px(10))>>,
          !.lasers = <<>>]

Game_loseLife(g) ==
    LET g1 == [g EXCEPT !.lives = g.lives - 1]
    IN IF g1.lives <= 0 THEN Game_gameOver(g1)
       ELSE [g1 EXCEPT
               !.balls = <<Ball_new(Px(CANVAS_WIDTH) \div 2, PaddleY - Px(10))>>,
               !.lasers = <<>>]

Game_updateBalls(g) ==
    LET slaved == IF Len(g.balls) > 0 /\ g.balls[1].state = "attached"
                  THEN [g.balls EXCEPT ![1].x = g.paddle.x + g.paddle.width \div 2,
                                       ![1].y = PaddleY - BallR]
                  ELSE g.balls
        moved == [i \in 1..Len(slaved) |-> Ball_update(slaved[i])]
        kept == SelectSeq(moved, LAMBDA b : b.active)
        g1 == [g EXCEPT !.balls = kept]
    IN IF Len(kept) = 0 THEN Game_loseLife(g1) ELSE g1

Game_updatePowerUps(g) ==
    LET moved == [i \in 1..Len(g.powerUps) |-> PowerUp_update(g.powerUps[i])]
    IN [g EXCEPT !.powerUps = SelectSeq(moved, LAMBDA p : p.active)]

Game_updateEnemies(g, t, d) ==
    [g EXCEPT !.enemies =
        [i \in 1..Len(g.enemies) |-> Enemy_update(g.enemies[i], t, d.window)]]

Game_updateLasers(g) ==
    LET moved == [i \in 1..Len(g.lasers) |->
                    [g.lasers[i] EXCEPT !.y = g.lasers[i].y - 600]]
    IN [g EXCEPT !.lasers = SelectSeq(moved, LAMBDA l : l.y > -Px(10))]

Game_spawnPowerUp(g, x, y, d) ==
    [g EXCEPT !.powerUps = Append(g.powerUps, PowerUp_new(x, y, POWERUP_TYPES[d.type]))]

Game_spawnExtraBalls_one(g) ==
    IF Len(g.balls) = 0 THEN g
    ELSE [g EXCEPT !.balls = Append(g.balls,
             Ball_setVelocityAngle(
                 [Ball_new(g.balls[1].x, g.balls[1].y) EXCEPT !.state = "launched"], 30))]

Game_spawnExtraBalls(g) ==
    IF Len(g.balls) = 0 THEN g
    ELSE LET mainBall == g.balls[1]
             leftBall == Ball_setVelocityAngle(
                 [Ball_new(mainBall.x, mainBall.y) EXCEPT !.state = "launched"], -30)
             rightBall == Ball_setVelocityAngle(
                 [Ball_new(mainBall.x, mainBall.y) EXCEPT !.state = "launched"], 30)
         IN [g EXCEPT !.balls = g.balls \o <<leftBall, rightBall>>]

\* activatePowerUp(powerUp) for the power-up at index k
Game_activatePowerUp(g, k, t) ==
    LET type == g.powerUps[k].type
        g1 == [g EXCEPT !.powerUps[k].active = FALSE,
                        !.powerUps[k].state = "caught"]
    IN CASE type = "E" ->
              [g1 EXCEPT !.paddle = Paddle_extend(g1.paddle),
                         !.timers = Append(g1.timers, t + Ms(POWERUP_DURATION))]
         [] type = "S" ->
              [g1 EXCEPT !.balls =
                  [i \in 1..Len(g1.balls) |->
                     [g1.balls[i] EXCEPT
                        !.speed = Max(BASE_SPEED, (g1.balls[i].speed * 7) \div 10)]]]
         [] type = "M" -> Game_spawnExtraBalls(g1)
         [] type = "L" ->
              [g1 EXCEPT !.paddle = Paddle_enableLaser(g1.paddle, Ms(POWERUP_DURATION))]
         [] OTHER -> g1

\* checkCollisions(), lines 379-400: ball k has collided with brick i
Game_hitBrick(g, k, i, c, d) ==
    LET brick == g.bricks[i]
        h == Brick_hit(brick)
        g1 == [g EXCEPT !.balls[k] = resolveBallBrick(g.balls[k], brick, c),
                        !.bricks[i] = h.brick]
    IN IF ~h.destroyed THEN g1
       ELSE
         LET g2 == [g1 EXCEPT !.score = g1.score + brick.score,
                              !.bricksDestroyed = g1.bricksDestroyed + 1]
             g3 == IF Brick_canDropPowerUp(h.brick) /\ d.drop
                   THEN Game_spawnPowerUp(g2, brick.x + Px(BRICK_WIDTH) \div 2,
                                          brick.y + Px(BRICK_HEIGHT), d)
                   ELSE g2
         IN IF g3.bricksDestroyed % speedIncreaseThreshold = 0
            THEN [g3 EXCEPT !.balls[k] = Ball_increaseSpeed(g3.balls[k], 105)]
            ELSE g3

RECURSIVE Game_ballBricks_noBreak(_, _, _, _, _)
Game_ballBricks_noBreak(g, k, i, activeBricks, d) ==
    IF i > Len(g.bricks) THEN g
    ELSE IF i \notin activeBricks THEN Game_ballBricks_noBreak(g, k, i + 1, activeBricks, d)
    ELSE LET c == checkBallBrick(g.balls[k], g.bricks[i])
         IN IF c.collided
            THEN Game_ballBricks_noBreak(Game_hitBrick(g, k, i, c, d), k, i + 1, activeBricks, d)
            ELSE Game_ballBricks_noBreak(g, k, i + 1, activeBricks, d)

\* the brick loop of checkCollisions() for ball k, from brick i on: the
\* bricks of the snapshot in storage order, left at the first collision
RECURSIVE Game_ballBricks(_, _, _, _, _)
Game_ballBricks(g, k, i, activeBricks, d) ==
    IF i > Len(g.bricks) THEN g
    ELSE IF i \notin activeBricks THEN Game_ballBricks(g, k, i + 1, activeBricks, d)
    ELSE LET c == checkBallBrick(g.balls[k], g.bricks[i])
         IN IF c.collided
            THEN Game_hitBrick(g, k, i, c, d)
            ELSE Game_ballBricks(g, k, i + 1, activeBricks, d)

Game_ballPaddle(g, k) ==
    LET c == checkBallPaddle(g.balls[k], g.paddle)
    IN IF c.collided
       THEN [g EXCEPT !.balls[k] = resolveBallPaddle(g.balls[k], g.paddle, c)]
       ELSE g

RECURSIVE Game_ballEnemies(_, _, _, _)
Game_ballEnemies(g, k, j, d) ==
    IF j > Len(g.enemies) THEN g
    ELSE IF Enemy_checkBallCollision(g.enemies[j], g.balls[k])
    THEN Game_ballEnemies(
             [g EXCEPT !.balls[k] =
                 Enemy_deflectBall(g.enemies[j], g.balls[k], d.angle, d.dir)],
             k, j + 1, d)
    ELSE Game_ballEnemies(g, k, j + 1, d)

RECURSIVE Game_collideBalls(_, _, _, _)
Game_collideBalls(g, k, activeBricks, d) ==
    IF k > Len(g.balls) THEN g
    ELSE IF g.balls[k].state # "launched"
    THEN Game_collideBalls(g, k + 1, activeBricks, d)
    ELSE Game_collideBalls(
             Game_ballEnemies(
                 Game_ballPaddle(Game_ballBricks(g, k, 1, activeBricks, d), k),
                 k, 1, d),
             k + 1, activeBricks, d)

RECURSIVE Game_collidePowerUps(_, _, _)
Game_collidePowerUps(g, k, t) ==
    IF k > Len(g.powerUps) THEN g
    ELSE IF /\ g.powerUps[k].state = "falling"
            /\ PowerUp_checkPaddleCollision(g.powerUps[k], Paddle_getBounds(g.paddle))
    THEN Game_collidePowerUps(Game_activatePowerUp(g, k, t), k + 1, t)
    ELSE Game_collidePowerUps(g, k + 1, t)

RECURSIVE Game_collideLasers_anyEnemy(_, _, _)
Game_collideLasers_anyEnemy(g, l, j) ==
    IF l > Len(g.lasers) THEN g
    ELSE IF j > Len(g.enemies) THEN Game_collideLasers_anyEnemy(g, l + 1, 1)
    ELSE IF /\ g.enemies[j].visible
            /\ Enemy_checkLaserCollision(g.enemies[j], g.lasers[l].x, g.lasers[l].y)
    THEN Game_collideLasers_anyEnemy(
             [g EXCEPT !.enemies[j] = Enemy_hit(g.enemies[j]),
                       !.lasers[l].y = -Px(100),
                       !.score = g.score + 50],
             l, j + 1)
    ELSE Game_collideLasers_anyEnemy(g, l, j + 1)

RECURSIVE Game_collideLasers(_, _, _)
Game_collideLasers(g, l, j) ==
    IF l > Len(g.lasers) THEN g
    ELSE IF j > Len(g.enemies) THEN Game_collideLasers(g, l + 1, 1)
    ELSE IF /\ g.enemies[j].active
            /\ g.enemies[j].visible
            /\ Enemy_checkLaserCollision(g.enemies[j], g.lasers[l].x, g.lasers[l].y)
    THEN Game_collideLasers(
             [g EXCEPT !.enemies[j] = Enemy_hit(g.enemies[j]),
                       !.lasers[l].y = -Px(100),
                       !.score = g.score + 50],
             l, j + 1)
    ELSE Game_collideLasers(g, l, j + 1)

Game_checkCollisions(g, t, d) ==
    LET activeBricks == LevelManager_getActiveBricks(g.bricks)
    IN Game_collideLasers(
           Game_collidePowerUps(Game_collideBalls(g, 1, activeBricks, d), 1, t),
           1, 1)

Paddle_getLaserPositions(p) ==
    IF ~p.hasLaser THEN <<>>
    ELSE <<[x |-> p.x + Px(5), y |-> PaddleY],
           [x |-> p.x + p.width - Px(5), y |-> PaddleY]>>

Game_fireLaser(g) ==
    IF ~g.paddle.hasLaser THEN g
    ELSE [g EXCEPT !.lasers = g.lasers \o Paddle_getLaserPositions(g.paddle)]

Game_completeLevel_keepEntities(g, t, d) == [g EXCEPT !.level = g.level + 1]

Game_completeLevel(g, t, d) == Game_loadLevel(g, g.level + 1, t, d)

\* update(): the part before checkCollisions() (the entity updates)
Game_updateEntities(g, inp, t, d) ==
    LET keyDirection == Input_getPaddleDirection(inp)
        p1 == IF inp.mouseActive /\ inp.mouseX # -1
              THEN Paddle_moveTo(g.paddle, inp.mouseX)
              ELSE IF keyDirection # 0
                   THEN Paddle_move(g.paddle, keyDirection, 1)
                   ELSE g.paddle
        g1 == [g EXCEPT !.paddle = Paddle_update(p1, FRAME_TIME)]
    IN Game_updateLasers(
           Game_updateEnemies(Game_updatePowerUps(Game_updateBalls(g1)), t, d))

Game_update_anyState(g, inp, t, d) ==
    LET g1 == Game_checkCollisions(Game_updateEntities(g, inp, t, d), t, d)
    IN IF LevelManager_isLevelComplete(g1.bricks)
       THEN Game_completeLevel(g1, t, d)
       ELSE g1

\* update(deltaTime) for the fixed step
Game_update(g, inp, t, d) ==
    IF g.state # "playing" THEN g
    ELSE LET g1 == Game_checkCollisions(Game_updateEntities(g, inp, t, d), t, d)
         IN IF LevelManager_isLevelComplete(g1.bricks)
            THEN Game_completeLevel(g1, t, d)
            ELSE g1

\* what the collision loop of checkCollisions() meets: for each ball of g,
\* the active bricks it overlaps (none for a ball that is not launched)
Game_overlaps(g) ==
    [k \in 1..Len(g.balls) |->
        IF g.state # "playing" \/ g.balls[k].state # "launched" THEN {}
        ELSE {i \in LevelManager_getActiveBricks(g.bricks) :
                 checkBallBrick(g.balls[k], g.bricks[i]).collided}]

-----------------------------------------------------------------------------
(* The draws of Math.random                                                *)

Draws ==
    [drop : BOOLEAN, type : 1..4, angle : {30, 45, 59}, dir : {-1, 1},
     window : {15000, 24999}]

\* the same with one visible window only
DrawsOneWindow == {d \in Draws : d.window = 15000}

\* and with one type and one angle only
DrawsFew == {d \in DrawsOneWindow : d.type = 1 /\ d.angle = 30}

FirstDraw == [drop |-> TRUE, type |-> 1, angle |-> 30, dir |-> 1, window |-> 15000]

\* a draw that differs from FirstDraw in every component
OtherDraw == [drop |-> FALSE, type |-> 2, angle |-> 45, dir |-> -1, window |-> 24999]

\* The results of one update() over the draws D.  An update that reads a
\* draw gives a different result for each value of it (a power-up spawned or
\* not; another velocity after a deflection; another disappearTime), each in
\* a field of its own; so where FirstDraw and OtherDraw give one result no
\* draw was read, and FirstDraw stands for all of D.
Game_updates(D, g, inp, t) ==
    LET first == Game_update(g, inp, t, FirstDraw)
    IN IF Game_update(g, inp, t, OtherDraw) = first
       THEN {[game |-> first, rnd |-> FirstDraw]}
       ELSE {[game |-> Game_update(g, inp, t, d), rnd |-> d] : d \in D}

-----------------------------------------------------------------------------
(* The whole program: the callbacks the browser delivers to the Game       *)

InFlight(g) ==
    g.state = "playing" /\ \E i \in 1..Len(g.balls) : g.balls[i].state = "launched"

Init ==
    /\ game = Game_new
    /\ input = Input_new
    /\ lastTime = 0
    /\ accumulator = 0
    /\ pc = "idle"
    /\ now = 0
    /\ ret = [accumulator |-> 0, elapsed |-> 0, ticks |-> 0]
    /\ rnd = FirstDraw
    /\ ticks = 0
    /\ waited = 0
    /\ seen = <<>>
    /\ dropped = 0

\* handleSpace reads a draw, the enemies' window, only where it starts a game
StartDraws(D, g) ==
    IF g.state = "playing" THEN {FirstDraw}
    ELSE {d \in D : d = [FirstDraw EXCEPT !.window = d.window]}

\* InputHandler.handleMouseMove: the pointer over canvas position x
MouseMove(X) ==
    /\ pc = "idle"
    /\ \E x \in X :
          input' = [input EXCEPT !.mouseX = Max(0, Min(Px(CANVAS_WIDTH), x)),
                                 !.mouseActive = TRUE]
    /\ UNCHANGED <<game, lastTime, accumulator, pc, now, ret, rnd, ticks, waited, seen, dropped>>

\* InputHandler.handleMouseDown, which calls Game.handleMouseClick
MouseDown(D) ==
    /\ pc = "idle"
    /\ input' = [input EXCEPT !.mouseClicked = TRUE]
    /\ \E d \in StartDraws(D, game) :
          /\ game' = Game_handleSpace(game, now, d)
          /\ rnd' = d
    /\ UNCHANGED <<lastTime, accumulator, pc, now, ret, ticks, waited, seen, dropped>>

\* the guard of gameLoop against a stale callback
Loop_stale_never(deltaTime) == FALSE

Loop_stale(deltaTime) == deltaTime > Ms(STALE_DELTA)

\* the condition of gameLoop's while loop
Loop_again_never(acc) == FALSE

Loop_again(acc) == acc >= FRAME_TIME

\* gameLoop(timestamp), up to its while loop: the callback comes delta after
\* the last one; ret keeps what it found.  maxTicks, maxWait and maxDropped
\* bound the run.
GameLoop(Deltas, maxTicks, maxWait, maxDropped) ==
    /\ pc = "idle"
    /\ \E delta \in Deltas :
          LET timestamp == now + delta
              deltaTime == timestamp - lastTime
              n == (accumulator + deltaTime) \div FRAME_TIME
          IN /\ now' = timestamp
             /\ lastTime' = timestamp
             /\ ret' = [accumulator |-> accumulator, elapsed |-> deltaTime,
                        ticks |-> ticks]
             /\ IF Loop_stale(deltaTime)
                THEN /\ dropped < maxDropped
                     /\ dropped' = dropped + 1
                     /\ accumulator' = accumulator
                     /\ pc' = "idle"
                ELSE /\ ticks + n <= maxTicks
                     /\ InFlight(game) \/ waited + n <= maxWait
                     /\ dropped' = dropped
                     /\ accumulator' = accumulator + deltaTime
                     /\ pc' = IF Loop_again(accumulator + deltaTime)
                              THEN "ticking" ELSE "idle"
    /\ UNCHANGED <<game, input, rnd, ticks, waited, seen>>

\* one turn of gameLoop's while loop: update(fixedTimeStep / 1000), the
\* accumulator decreased; render() changes nothing
Tick(D) ==
    /\ pc = "ticking"
    /\ \E u \in Game_updates(D, game, input, now) :
          /\ game' = u.game
          /\ rnd' = u.rnd
    /\ input' = IF game.state = "playing"
                THEN [input EXCEPT !.mouseClicked = FALSE] ELSE input
    /\ accumulator' = accumulator - FRAME_TIME
    /\ pc' = IF Loop_again(accumulator - FRAME_TIME) THEN "ticking" ELSE "idle"
    /\ ticks' = ticks + 1
    /\ waited' = IF InFlight(game) THEN waited ELSE waited + 1
    /\ seen' = Game_overlaps(Game_updateEntities(game, input, now, rnd'))
    /\ UNCHANGED <<lastTime, now, ret, dropped>>

\* InputHandler.handleKeyDown for Space: a key not yet down calls handleSpace
SpaceDown(D) ==
    /\ pc = "idle"
    /\ ~input.space
    /\ input' = [input EXCEPT !.space = TRUE]
    /\ \E d \in StartDraws(D, game) :
          /\ game' = Game_handleSpace(game, now, d)
          /\ rnd' = d
    /\ UNCHANGED <<lastTime, accumulator, pc, now, ret, ticks, waited, seen, dropped>>

\* InputHandler.handleKeyUp for Space
SpaceUp ==
    /\ pc = "idle"
    /\ input.space
    /\ input' = [input EXCEPT !.space = FALSE]
    /\ UNCHANGED <<game, lastTime, accumulator, pc, now, ret, rnd, ticks, waited, seen, dropped>>

(* A game played with the mouse at the display's rate                       *)

MaxTicks == 650
MaxWait == 1
MouseTargets == {Px(382)}

MouseMoves == MouseMove(MouseTargets)
Clicks == MouseDown(DrawsOneWindow)
Frames == GameLoop({FRAME_TIME}, MaxTicks, MaxWait, 0)
Ticks == Tick(DrawsOneWindow)

Next == MouseMoves \/ Clicks \/ Frames \/ Ticks

Spec == Init /\ [][Next]_vars

\* C3: when a brick is destroyed in a tick whose drop draw is below
\* DROP_CHANCE, a falling power-up is added at the brick's bottom centre.
C3_DestroyedBrickDrops ==
    [][(ticks' = ticks + 1 /\ game'.level = game.level /\ rnd'.drop) =>
          \A i \in DOMAIN game.bricks :
             (game.bricks[i].active /\ ~game'.bricks[i].active) =>
                \E k \in DOMAIN game'.powerUps :
                   /\ game'.powerUps[k].state = "falling"
                   /\ game'.powerUps[k].x = game.bricks[i].x + Px(BRICK_WIDTH) \div 2
                   /\ game'.powerUps[k].y = game.bricks[i].y + Px(BRICK_HEIGHT)]_vars

\* C6: a tick whose ball updates leave no ball takes exactly one life; at 0
\* lives the phase becomes GameOver, otherwise there is one attached ball and
\* no laser.  A tick that leaves a ball takes no life.
C6_LifeLost ==
    [][(ticks' = ticks + 1 /\ game.state = "playing") =>
          IF \A k \in DOMAIN game.balls :
                /\ game.balls[k].state = "launched"
                /\ game.balls[k].y + game.balls[k].dy > Px(CANVAS_HEIGHT) + Px(BALL_SIZE)
          THEN /\ game'.lives = game.lives - 1
               /\ IF game'.lives <= 0
                  THEN game'.state = "gameover"
                  ELSE /\ game'.state = "playing"
                       /\ Len(game'.balls) = 1
                       /\ game'.balls[1].state = "attached"
                       /\ game'.lasers = <<>>
          ELSE game'.lives = game.lives]_vars

\* the last life has gone and the game is over
C6_Witness ==
    /\ game.state = "gameover"
    /\ game.lives = 0
    /\ game.balls = <<>>

\* C8: the phase is Menu, Playing or GameOver; it changes only from Menu or
\* GameOver to Playing, on a start request, and from Playing to GameOver, in
\* the tick that takes the last life; Menu is never entered again; a launch
\* request while Playing leaves the phase; entering Playing sets score 0,
\* lives INITIAL_LIVES and level 0.
C8_PhaseMachine ==
    /\ [](game.state \in {"menu", "playing", "gameover"})
    /\ [][/\ game'.state # game.state =>
                \/ /\ game.state \in {"menu", "gameover"}
                   /\ game'.state = "playing"
                   /\ ticks' = ticks
                   /\ input'.mouseClicked
                \/ /\ game.state = "playing"
                   /\ game'.state = "gameover"
                   /\ ticks' = ticks + 1
                   /\ game.lives = 1
                   /\ game'.lives = 0
          /\ game'.state = "menu" => game.state = "menu"
          /\ (game.state = "playing" /\ ticks' = ticks) => game'.state = "playing"
          /\ (game.state # "playing" /\ game'.state = "playing") =>
                /\ game'.score = 0
                /\ game'.lives = INITIAL_LIVES
                /\ game'.level = 0]_vars

\* a game started again after a game that scored and was lost
C8_Witness ==
    /\ game.state = "playing"
    /\ game.highScore > 0
    /\ game.score = 0
    /\ game.lives = INITIAL_LIVES

\* C21: every launched ball's velocity has the magnitude of its speed,
\* whatever has happened to it: launch, reflection, paddle bounce, enemy
\* deflection, speed increase, Slow. Velocities are whole units here, so the
\* squares may differ by the rounding of the two components.
C21_VelocityHasSpeed ==
    \A k \in DOMAIN game.balls :
       game.balls[k].state = "launched" =>
          Abs(game.balls[k].dx * game.balls[k].dx + game.balls[k].dy * game.balls[k].dy
              - game.balls[k].speed * game.balls[k].speed) <= 8 * game.balls[k].speed

\* the score values of the bricks 1..i that are active in before and no longer
\* in after
RECURSIVE DestroyedScore(_, _, _)
DestroyedScore(before, after, i) ==
    IF i = 0 THEN 0
    ELSE DestroyedScore(before, after, i - 1)
         + (IF before[i].active /\ ~after[i].active THEN before[i].score ELSE 0)

AttachedOnPaddle(g) ==
    \A k \in DOMAIN g.balls :
       g.balls[k].state = "attached" =>
          /\ g.balls[k].dx = 0
          /\ g.balls[k].dy = 0
          /\ g.balls[k].x = g.paddle.x + g.paddle.width \div 2
          /\ g.balls[k].y = PaddleY - BallR

\* C20: at the end of every tick in the playing phase, and when a launch is
\* handled, every attached ball has dx = dy = 0 and sits on the paddle:
\* x = paddle.x + paddle.width / 2, y = paddle.y - size / 2.
C20_AttachedBallOnPaddle ==
    [][/\ (ticks' = ticks + 1 /\ game'.state = "playing") => AttachedOnPaddle(game')
       /\ (/\ game.state = "playing"
           /\ Len(game'.balls) = Len(game.balls)
           /\ \E k \in DOMAIN game.balls :
                 /\ game.balls[k].state = "attached"
                 /\ game'.balls[k].state = "launched") => AttachedOnPaddle(game)]_vars

-----------------------------------------------------------------------------
(* A rally picked up in flight: any level just loaded, the ball launched    *)
(* and on its way from one of a few places, the frames at the display's     *)
(* rate, no input                                                          *)

MaxRallyTicks == 12

\* <<x, y, angle>>: up the gap between the first two columns of bricks; up
\* and to the right into the corner that a brick of the first row makes with
\* its lower right neighbour; down onto the paddle; out to the left wall
RallyStarts ==
    {<<Px(382), Px(400), 0>>,
     <<Px(382) - 346, Px(110) + 200, 60>>,
     <<Px(930), Px(1000), 150>>,
     <<Px(20), Px(500), -60>>}

InitRally ==
    /\ \E levelIndex \in 0..(totalLevels - 1), start \in RallyStarts :
          LET loaded == Game_loadLevel([Game_new EXCEPT !.state = "playing"],
                                       levelIndex, 0, FirstDraw)
              ball == [Ball_new(start[1], start[2]) EXCEPT !.state = "launched"]
          IN game = [loaded EXCEPT !.balls = <<Ball_setVelocityAngle(ball, start[3])>>]
    /\ input = Input_new
    /\ lastTime = 0
    /\ accumulator = 0
    /\ pc = "idle"
    /\ now = 0
    /\ ret = [accumulator |-> 0, elapsed |-> 0, ticks |-> 0]
    /\ rnd = FirstDraw
    /\ ticks = 0
    /\ waited = 0
    /\ seen = <<>>
    /\ dropped = 0

RallyFrames == GameLoop({FRAME_TIME}, MaxRallyTicks, 0, 0)
RallyTicks == Tick(DrawsFew)

NextRally == RallyFrames \/ RallyTicks

SpecRally == InitRally /\ [][NextRally]_vars

\* C5: in one tick a ball hits at most one brick, the first in storage order
\* of the active bricks it overlaps; no other brick changes.
C5_OneBrickPerBall ==
    [][(ticks' = ticks + 1 /\ game.state = "playing" /\ game'.level = game.level) =>
          LET changed == {i \in DOMAIN game.bricks : game'.bricks[i] # game.bricks[i]}
          IN /\ Cardinality(changed) <= Len(seen')
             /\ Len(seen') = 1 =>
                   IF seen'[1] = {} THEN changed = {}
                   ELSE LET first == CHOOSE i \in seen'[1] : \A j \in seen'[1] : i <= j
                        IN /\ changed \subseteq {first}
                           /\ ~game.bricks[first].indestructible =>
                                 game'.bricks[first].hits = game.bricks[first].hits - 1]_vars

\* a ball that overlapped two bricks: the first one was hit, the other one
\* is as it was loaded
C5_Witness ==
    /\ ticks > 0
    /\ \E k \in DOMAIN seen :
          \E i, j \in seen[k] :
             /\ i < j
             /\ game.bricks[i].hits < game.bricks[i].maxHits
             /\ game.bricks[j].active
             /\ game.bricks[j].hits = game.bricks[j].maxHits

-----------------------------------------------------------------------------
(* The loop under other display rates: callbacks 10 ms to 101 ms apart, the *)
(* game started and the ball launched with the space bar                   *)

MaxLoopTicks == 7
MaxDropped == 1
MaxLoopWait == 1
LoopDeltas == {Ms(10), Ms(100), Ms(101)}
ClockShifts == {Ms(100), Ms(25000)}

LoopSpaceDown == SpaceDown(DrawsOneWindow)
LoopFrames == GameLoop(LoopDeltas, MaxLoopTicks, MaxLoopWait, MaxDropped)
LoopTicks == Tick(DrawsFew)

NextLoop == LoopSpaceDown \/ SpaceUp \/ LoopFrames \/ LoopTicks

SpecLoop == Init /\ [][NextLoop]_vars

\* C9: after every gameLoop callback 0 <= accumulator < FRAME_TIME; a
\* callback whose elapsed time is at most 100 ms runs
\* floor((accumulator before + elapsed) / FRAME_TIME) ticks, at most 6; and
\* each tick is the entity updates, then the collisions, then the
\* level-completion check.
C9_FixedStep ==
    /\ [](pc = "idle" =>
            /\ 0 <= accumulator
            /\ accumulator < FRAME_TIME
            /\ ret.elapsed <= Ms(STALE_DELTA) =>
                  /\ ticks - ret.ticks = (ret.accumulator + ret.elapsed) \div FRAME_TIME
                  /\ ticks - ret.ticks <= 6)
    /\ [][(ticks' = ticks + 1 /\ game.state = "playing") =>
             LET updated == Game_updateEntities(game, input, now, rnd')
                 collided == Game_checkCollisions(updated, now, rnd')
             IN game' = IF LevelManager_isLevelComplete(collided.bricks)
                        THEN Game_completeLevel(collided, now, rnd')
                        ELSE collided]_vars

\* a callback of 100 ms that found a remainder and ran six ticks of a game
\* in play
C9_Witness ==
    /\ pc = "idle"
    /\ ret.accumulator > 0
    /\ ret.elapsed = Ms(STALE_DELTA)
    /\ ticks - ret.ticks = 6
    /\ InFlight(game)

\* C11: a gameLoop callback that comes more than 100 ms after the previous
\* one runs no tick and leaves the accumulator, the entities, score, lives,
\* level and phase as they are; it sets the last-frame timestamp only.
C11_StaleCallbackSkipped ==
    [][(now' # now /\ now' - lastTime > Ms(STALE_DELTA)) =>
          /\ game' = game
          /\ accumulator' = accumulator
          /\ ticks' = ticks
          /\ pc' = "idle"
          /\ input' = input
          /\ lastTime' = now']_vars

\* a callback given up as stale in a game in play, a remainder in the
\* accumulator
C11_Witness ==
    /\ dropped > 0
    /\ ret.elapsed > Ms(STALE_DELTA)
    /\ ret.ticks = ticks
    /\ lastTime = now
    /\ accumulator > 0
    /\ InFlight(game)

\* what C10 compares
Observed(g) ==
    [paddle |-> [x |-> g.paddle.x, width |-> g.paddle.width],
     enemies |-> [j \in DOMAIN g.enemies |->
                    [x |-> g.enemies[j].x, y |-> g.enemies[j].y,
                     visible |-> g.enemies[j].visible]],
     balls |-> g.balls, bricks |-> g.bricks,
     score |-> g.score, lives |-> g.lives, state |-> g.state]

\* C10: a tick gives the same entities, score, lives and phase whatever the
\* wall clock reads when it runs: with the same state, inputs and draws, a
\* tick that runs later (after callbacks given up as stale, or after a slow
\* frame) gives what the tick that ran gives.
C10_TickIgnoresClock ==
    [][ticks' = ticks + 1 =>
          \A late \in ClockShifts :
             Observed(Game_update(game, input, now + late, rnd')) = Observed(game')]_vars

-----------------------------------------------------------------------------
(* The Paddle alone: its operations in any order                            *)

MaxTimers == 2
PaddleTargets == {0, Px(382), Px(960), Px(CANVAS_WIDTH)}

paddleRest == <<input, lastTime, accumulator, pc, now, ret, rnd, ticks, waited, seen, dropped>>

\* paddle.move(direction, 1/60), as update() calls it for a held key
PaddleMove ==
    /\ \E direction \in {-1, 1} :
          game' = [game EXCEPT !.paddle = Paddle_move(game.paddle, direction, 1)]
    /\ UNCHANGED paddleRest

\* paddle.moveTo(mouseX), as update() calls it for the pointer
PaddleMoveTo ==
    /\ \E targetX \in PaddleTargets :
          game' = [game EXCEPT !.paddle = Paddle_moveTo(game.paddle, targetX)]
    /\ UNCHANGED paddleRest

\* paddle.extend(duration): the width grows and a timeout is scheduled
PaddleExtend ==
    /\ Len(game.timers) < MaxTimers
    /\ game' = [game EXCEPT !.paddle = Paddle_extend(game.paddle),
                            !.timers = Append(game.timers, now + Ms(POWERUP_DURATION))]
    /\ UNCHANGED paddleRest

\* the oldest timeout of extend() runs
PaddleExtendTimeout ==
    /\ Len(game.timers) > 0
    /\ game' = [game EXCEPT !.paddle = Paddle_extendTimeout(game.paddle),
                            !.timers = Tail(game.timers)]
    /\ UNCHANGED paddleRest

\* paddle.reset(), as startGame() calls it
PaddleReset ==
    /\ game' = [game EXCEPT !.paddle = Paddle_reset(game.paddle)]
    /\ UNCHANGED paddleRest

NextPaddle ==
    PaddleMove \/ PaddleMoveTo \/ PaddleExtend \/ PaddleExtendTimeout \/ PaddleReset

SpecPaddle == Init /\ [][NextPaddle]_vars

\* C1: after any sequence of move, moveTo, extend, the revert of extend and
\* reset, the paddle lies within the field: 0 <= x <= CANVAS_WIDTH - width.
C1_PaddleInField ==
    /\ 0 <= game.paddle.x
    /\ game.paddle.x <= Px(CANVAS_WIDTH) - game.paddle.width

-----------------------------------------------------------------------------
(* One Brick alone: hit() called again and again                            *)

MaxBrickHits == 5

\* any brick of any level, as LevelManager.loadLevel constructs it
InitBrick ==
    /\ \E levelIndex \in 0..(totalLevels - 1) :
          \E i \in DOMAIN LevelManager_loadLevel(levelIndex) :
             game = [Game_new EXCEPT !.bricks = <<LevelManager_loadLevel(levelIndex)[i]>>]
    /\ input = Input_new
    /\ lastTime = 0
    /\ accumulator = 0
    /\ pc = "idle"
    /\ now = 0
    /\ ret = FALSE
    /\ rnd = FirstDraw
    /\ ticks = 0
    /\ waited = 0
    /\ seen = <<>>
    /\ dropped = 0

\* brick.hit(); ticks counts the calls
BrickHit ==
    /\ ticks < MaxBrickHits
    /\ game' = [game EXCEPT !.bricks[1] = Brick_hit(game.bricks[1]).brick]
    /\ ret' = Brick_hit(game.bricks[1]).destroyed
    /\ ticks' = ticks + 1
    /\ UNCHANGED <<input, lastTime, accumulator, pc, now, rnd, waited, seen, dropped>>

NextBrick == BrickHit

SpecBrick == InitBrick /\ [][NextBrick]_vars

\* C2: hit() never increases hits; on a brick that is no longer active it
\* changes neither hits nor active and returns false; and the hits of a
\* destructible brick never drop below 0.
C2_HitOnInactiveIsNoOp ==
    [][/\ game'.bricks[1].hits <= game.bricks[1].hits
       /\ ~game.bricks[1].active =>
             /\ game'.bricks[1].hits = game.bricks[1].hits
             /\ game'.bricks[1].active = game.bricks[1].active
             /\ ret' = FALSE
       /\ ~game.bricks[1].indestructible => game'.bricks[1].hits >= 0]_vars

-----------------------------------------------------------------------------
(* The events that change a ball's speed and the power-ups, on a game in   *)
(* play: a paddle bounce, the speed-up of every tenth brick, a power-up     *)
(* caught                                                                  *)

MaxSpeedUps == 14
MaxFxEvents == 2
MaxBalls == 3
BounceAngles == {-60, 0, 30}

\* the speed after k speed-ups of checkCollisions()
RECURSIVE SpeedAfter(_)
SpeedAfter(k) ==
    IF k = 0 THEN BASE_SPEED ELSE Ball_cappedSpeed(SpeedAfter(k - 1), 105)

\* a game started and its ball launched, the ball k speed-ups later
InitFx ==
    /\ \E k \in 0..MaxSpeedUps :
          LET started == Game_handleSpace(Game_new, 0, FirstDraw)
              ball == [started.balls[1] EXCEPT !.speed = SpeedAfter(k)]
          IN game = [started EXCEPT !.balls = <<Ball_launchStraight(ball)>>]
    /\ input = Input_new
    /\ lastTime = 0
    /\ accumulator = 0
    /\ pc = "idle"
    /\ now = 0
    /\ ret = "none"
    /\ rnd = FirstDraw
    /\ ticks = 0
    /\ waited = 0
    /\ seen = <<>>
    /\ dropped = 0

fxRest == <<input, lastTime, accumulator, pc, now, rnd, waited, seen, dropped>>

\* checkCollisions(): ball k meets the paddle at a place that gives angle
FxPaddleBounce ==
    /\ ticks < MaxFxEvents
    /\ \E k \in 1..Len(game.balls), angle \in BounceAngles :
          game' = [game EXCEPT !.balls[k] =
                      resolveBallPaddle(game.balls[k], game.paddle,
                                        [collided |-> TRUE, angle |-> angle])]
    /\ ret' = "bounce"
    /\ ticks' = ticks + 1
    /\ UNCHANGED fxRest

\* checkCollisions(): ball k destroys the brick that makes bricksDestroyed a
\* multiple of the threshold
FxSpeedUp ==
    /\ ticks < MaxFxEvents
    /\ \E k \in 1..Len(game.balls) :
          game' = [game EXCEPT !.balls[k] = Ball_increaseSpeed(game.balls[k], 105)]
    /\ ret' = "speedup"
    /\ ticks' = ticks + 1
    /\ UNCHANGED fxRest

\* checkCollisions(): a falling power-up of the type meets the paddle and is
\* activated; the next updatePowerUps() drops it from the list
FxCatch ==
    /\ ticks < MaxFxEvents
    /\ \E i \in DOMAIN POWERUP_TYPES :
          LET fallen == Game_spawnPowerUp(game, game.paddle.x, PaddleY,
                                          [FirstDraw EXCEPT !.type = i])
          IN /\ POWERUP_TYPES[i] = "M" => Len(game.balls) + 2 <= MaxBalls
             /\ POWERUP_TYPES[i] = "E" => Len(game.timers) < MaxTimers
             /\ game' = Game_updatePowerUps(Game_collidePowerUps(fallen, 1, now))
             /\ ret' = POWERUP_TYPES[i]
    /\ ticks' = ticks + 1
    /\ UNCHANGED fxRest

NextFx == FxPaddleBounce \/ FxSpeedUp \/ FxCatch

SpecFx == InitFx /\ [][NextFx]_vars

\* C4: whatever paddle bounces, speed-ups and Slow power-ups a ball goes
\* through, its speed stays at or below MAX_SPEED.
C4_SpeedCapped ==
    \A k \in 1..Len(game.balls) : game.balls[k].speed <= MAX_SPEED

\* a ball that a bounce or a speed-up has brought to the cap
C4_Witness ==
    /\ ret \in {"bounce", "speedup"}
    /\ \E k \in 1..Len(game.balls) : game.balls[k].speed = MAX_SPEED

\* C7: a Multiball power-up caught with one ball in play leaves exactly three
\* balls: the original, unchanged, and two launched balls at its position
\* that leave at 30 degrees to the left and to the right of straight up.
C7_MultiballThree ==
    [][(ret' = "M" /\ ticks' = ticks + 1 /\ Len(game.balls) = 1) =>
          /\ Len(game'.balls) = 3
          /\ game'.balls[1] = game.balls[1]
          /\ \A k \in {2, 3} :
                /\ game'.balls[k].state = "launched"
                /\ game'.balls[k].active
                /\ game'.balls[k].x = game.balls[1].x
                /\ game'.balls[k].y = game.balls[1].y
                /\ game'.balls[k].dy < 0
                /\ 2 * Abs(game'.balls[k].dx) = game'.balls[k].speed
                /\ Abs(game'.balls[k].dx * game'.balls[k].dx
                       + game'.balls[k].dy * game'.balls[k].dy
                       - game'.balls[k].speed * game'.balls[k].speed)
                      <= game'.balls[k].speed
          /\ game'.balls[2].dx < 0
          /\ game'.balls[3].dx > 0]_vars

\* three balls right after a Multiball caught
C7_Witness ==
    /\ ret = "M"
    /\ Len(game.balls) = 3
    /\ game.balls[2].dx = -game.balls[3].dx
    /\ game.balls[2].state = "launched"

-----------------------------------------------------------------------------
(* The bricks of a level near its end: all rows but one destroyed, hit()   *)
(* called on active bricks, isLevelComplete() asked after each             *)

MaxRowHits == 2
PatternRows == 1..6

\* the bricks of the level with every destructible brick outside the row
\* destroyed
LastRow(levelIndex, rowIndex) ==
    LET bricks == LevelManager_loadLevel(levelIndex)
        rowY == Px(BRICK_OFFSET_Y + (rowIndex - 1) * (BRICK_HEIGHT + BRICK_PADDING))
    IN [i \in DOMAIN bricks |->
          IF bricks[i].y = rowY \/ bricks[i].indestructible THEN bricks[i]
          ELSE [bricks[i] EXCEPT !.active = FALSE, !.hits = 0]]

InitRow ==
    /\ \E levelIndex \in 0..(totalLevels - 1), rowIndex \in PatternRows :
          game = [Game_new EXCEPT !.state = "playing", !.level = levelIndex,
                                  !.bricks = LastRow(levelIndex, rowIndex)]
    /\ input = Input_new
    /\ lastTime = 0
    /\ accumulator = 0
    /\ pc = "idle"
    /\ now = 0
    /\ ret = LevelManager_isLevelComplete(game.bricks)
    /\ rnd = FirstDraw
    /\ ticks = 0
    /\ waited = 0
    /\ seen = <<>>
    /\ dropped = 0

\* brick.hit() on an active brick, then levelManager.isLevelComplete()
RowHit ==
    /\ ticks < MaxRowHits
    /\ \E i \in LevelManager_getActiveBricks(game.bricks) :
          game' = [game EXCEPT !.bricks[i] = Brick_hit(game.bricks[i]).brick]
    /\ ret' = LevelManager_isLevelComplete(game'.bricks)
    /\ ticks' = ticks + 1
    /\ UNCHANGED <<input, lastTime, accumulator, pc, now, rnd, waited, seen, dropped>>

NextRow == RowHit

SpecRow == InitRow /\ [][NextRow]_vars

\* C12: isLevelComplete() is true exactly when no brick is both active and
\* destructible; bricks that are all indestructible are complete at once and
\* stay so whatever hits they take.
C12_CompleteIffNoDestructibleLeft ==
    /\ ret = (Cardinality({i \in DOMAIN game.bricks :
                              game.bricks[i].active
                              /\ game.bricks[i].type # "indestructible"}) = 0)
    /\ (\A i \in DOMAIN game.bricks :
           game.bricks[i].active => game.bricks[i].type = "indestructible") => ret

\* complete after hits, with indestructible bricks still standing and the
\* last destructible bricks destroyed by the hits
C12_Witness ==
    /\ ticks = MaxRowHits
    /\ ret
    /\ \E i \in DOMAIN game.bricks :
          game.bricks[i].active /\ game.bricks[i].type = "indestructible"
    /\ \E i \in DOMAIN game.bricks :
          ~game.bricks[i].active /\ game.bricks[i].y # game.bricks[1].y

-----------------------------------------------------------------------------
(* The end of a level: one destructible brick left, one hit from           *)
(* destruction, and a launched ball right below it                         *)

MaxEndTicks == 3
MaxEndWait == 1
EndLevels == {0, 1, 2, 3, 9, 10}

\* the bricks of the level with every destructible brick but one destroyed
\* and that one hit down to its last hit
LastBrick(levelIndex, last) ==
    LET bricks == LevelManager_loadLevel(levelIndex)
    IN [i \in DOMAIN bricks |->
          IF bricks[i].indestructible THEN bricks[i]
          ELSE IF i = last THEN [bricks[i] EXCEPT !.hits = 1]
          ELSE [bricks[i] EXCEPT !.active = FALSE, !.hits = 0]]

\* where the ball starts, right below the brick
BelowBrick(brick) ==
    [Ball_new(brick.x + Px(BRICK_WIDTH) \div 2,
              brick.y + Px(BRICK_HEIGHT) + BallR + 200)
       EXCEPT !.state = "launched"]

\* the lowest destructible bricks that a ball reaches from below past the
\* indestructible ones
BottomRow(bricks) ==
    LET open == {i \in DOMAIN bricks :
                    /\ ~bricks[i].indestructible
                    /\ \A j \in DOMAIN bricks :
                          bricks[j].indestructible =>
                             \A up \in {0, BASE_SPEED} :
                                ~checkBallBrick([BelowBrick(bricks[i])
                                                   EXCEPT !.y = @ - up],
                                                bricks[j]).collided}
    IN {i \in open : \A j \in open : bricks[j].y <= bricks[i].y}

InitEnd ==
    /\ \E levelIndex \in EndLevels, extended \in BOOLEAN, falling \in BOOLEAN :
          \E last \in BottomRow(LevelManager_loadLevel(levelIndex)) :
             LET loaded == Game_loadLevel([Game_new EXCEPT !.state = "playing"],
                                          levelIndex, 0, FirstDraw)
                 brick == loaded.bricks[last]
                 ball == BelowBrick(brick)
             IN game = [loaded EXCEPT
                          !.bricks = LastBrick(levelIndex, last),
                          !.balls = <<Ball_setVelocityAngle(ball, 0)>>,
                          !.paddle = IF extended
                                     THEN [Paddle_extend(loaded.paddle)
                                              EXCEPT !.x = Px(382)]
                                     ELSE loaded.paddle,
                          !.powerUps = IF falling
                                       THEN <<PowerUp_new(Px(382), Px(400), "multiball")>>
                                       ELSE <<>>]
    /\ input = Input_new
    /\ lastTime = 0
    /\ accumulator = 0
    /\ pc = "idle"
    /\ now = 0
    /\ ret = [accumulator |-> 0, elapsed |-> 0, ticks |-> 0]
    /\ rnd = FirstDraw
    /\ ticks = 0
    /\ waited = 0
    /\ seen = <<>>
    /\ dropped = 0

EndFrames == GameLoop({FRAME_TIME}, MaxEndTicks, MaxEndWait, 0)
EndTicks == Tick(DrawsFew)

NextEnd == EndFrames \/ EndTicks

SpecEnd == InitEnd /\ [][NextEnd]_vars

\* the tick destroys the last active destructible brick: the only such brick
\* is down to its last hit and is the brick the ball collides with
LastBrickDestroyed ==
    /\ ticks' = ticks + 1
    /\ game.state = "playing"
    /\ Len(seen') = 1
    /\ \E b \in seen'[1] :
          /\ \A j \in seen'[1] : b <= j
          /\ ~game.bricks[b].indestructible
          /\ game.bricks[b].hits = 1
          /\ \A j \in DOMAIN game.bricks :
                (game.bricks[j].active /\ ~game.bricks[j].indestructible) => j = b

\* C13: in the tick in which the last active destructible brick is destroyed
\* the level index rises by one and the entities are loaded afresh: the bricks
\* of pattern (index mod number of patterns), the paddle at base width in the
\* centre, one attached ball, no power-ups, no projectiles, and 2 enemies for
\* index 1 and 2, 3 from index 3 on; the score grows by that brick's points
\* only and the lives stay.
C13_LevelAdvances ==
    [][LastBrickDestroyed =>
          LET b == CHOOSE b \in seen'[1] : \A j \in seen'[1] : b <= j
              pattern == LEVEL_PATTERNS[((game.level + 1) % totalLevels) + 1]
          IN /\ game'.level = game.level + 1
             /\ game'.bricks = patternBricks(pattern, 1)
             /\ game'.paddle.width = Px(PADDLE_WIDTH)
             /\ game'.paddle.x = Px(CANVAS_WIDTH) \div 2 - Px(PADDLE_WIDTH) \div 2
             /\ Len(game'.balls) = 1
             /\ game'.balls[1].state = "attached"
             /\ game'.powerUps = <<>>
             /\ game'.lasers = <<>>
             /\ Len(game'.enemies) = (IF game'.level >= 3 THEN 3
                                      ELSE IF game'.level >= 1 THEN 2 ELSE 1)
             /\ game'.score = game.score + game.bricks[b].score
             /\ game'.lives = game.lives
             /\ game'.state = "playing"]_vars

\* a level begun by the destruction of the last brick of the level before:
\* the tenth level left for the eleventh, which has the first pattern again
C13_Witness ==
    /\ ticks > 0
    /\ game.level = 10
    /\ game.score > 0
    /\ Len(game.enemies) = 3
    /\ game.bricks = LevelManager_loadLevel(0)
    /\ Len(game.balls) = 1
    /\ game.balls[1].state = "attached"

\* C25: right after a level load exactly the first enemy is visible and
\* every other enemy of the level is hidden.
C25_OnlyFirstEnemyVisible ==
    [][game'.level # game.level =>
          /\ Len(game'.enemies) >= 1
          /\ game'.enemies[1].visible
          /\ \A i \in 2..Len(game'.enemies) : ~game'.enemies[i].visible]_vars

-----------------------------------------------------------------------------
(* checkCircleRect on circles placed on and around the edges and corners   *)
(* of a rectangle                                                          *)

CircleRadii == {1, BallR, Px(30)}
CircleRects ==
    {[x |-> Px(BRICK_OFFSET_X), y |-> Px(BRICK_OFFSET_Y),
      width |-> Px(BRICK_WIDTH), height |-> Px(BRICK_HEIGHT)],
     [x |-> 0, y |-> 0, width |-> Px(ENEMY_WIDTH), height |-> Px(ENEMY_HEIGHT)]}

\* offsets from the rectangle's origin along a side of the given length
CircleOffsets(length, radius) ==
    {-radius, -1, 0, 1, length \div 2, length - 1, length, length + 1,
     length + radius - 1}

InitCircle ==
    /\ \E rect \in CircleRects, radius \in CircleRadii :
          \E ox \in CircleOffsets(rect.width, radius),
             oy \in CircleOffsets(rect.height, radius) :
             ret = [circle |-> [x |-> rect.x + ox, y |-> rect.y + oy,
                                radius |-> radius],
                    rect |-> rect,
                    collision |-> NoCollision]
    /\ game = Game_new
    /\ input = Input_new
    /\ lastTime = 0
    /\ accumulator = 0
    /\ pc = "idle"
    /\ now = 0
    /\ rnd = FirstDraw
    /\ ticks = 0
    /\ waited = 0
    /\ seen = <<>>
    /\ dropped = 0

CircleRect ==
    /\ pc = "idle"
    /\ pc' = "done"
    /\ ret' = [ret EXCEPT !.collision = checkCircleRect(ret.circle, ret.rect)]
    /\ UNCHANGED <<game, input, lastTime, accumulator, now, rnd, ticks, waited,
                   seen, dropped>>

NextCircle == CircleRect

SpecCircle == InitCircle /\ [][NextCircle]_vars

OnCorner(circle, rect) ==
    /\ circle.x \in {rect.x, rect.x + rect.width}
    /\ circle.y \in {rect.y, rect.y + rect.height}

\* C33: a circle whose centre lies inside or on the rectangle collides with
\* both axis overlaps equal to the radius, and the side is top when the
\* centre is in the upper half of the rectangle's height and bottom
\* otherwise, never left or right; left and right are reported only for a
\* centre level with the rectangle and beside it, on that side.
C33_InsideIsTopOrBottom ==
    pc = "done" =>
       LET circle == ret.circle
           rect == ret.rect
           level == circle.y >= rect.y /\ circle.y <= rect.y + rect.height
           inside == /\ level
                     /\ circle.x >= rect.x
                     /\ circle.x <= rect.x + rect.width
       IN /\ inside =>
                /\ ret.collision.collided
                /\ circle.radius - Abs(ret.collision.dx) = circle.radius
                /\ circle.radius - Abs(ret.collision.dy) = circle.radius
                /\ ret.collision.side =
                      (IF 2 * circle.y < 2 * rect.y + rect.height
                       THEN "top" ELSE "bottom")
          /\ (ret.collision.collided /\ ret.collision.side = "left") =>
                level /\ circle.x < rect.x
          /\ (ret.collision.collided /\ ret.collision.side = "right") =>
                level /\ circle.x > rect.x + rect.width

\* a ball whose centre is just inside the brick's left edge, half way down:
\* the side is bottom
C33_Witness ==
    /\ pc = "done"
    /\ ret.circle.radius = BallR
    /\ ret.rect.width = Px(BRICK_WIDTH)
    /\ ret.circle.x = ret.rect.x + 1
    /\ 2 * ret.circle.y = 2 * ret.rect.y + ret.rect.height
    /\ ret.collision.collided
    /\ ret.collision.side = "bottom"

\* C14: a circle of positive radius centred on a corner of the rectangle
\* collides with side top or bottom, never left or right; and whenever the
\* overlaps on the two axes are equal the side is top or bottom.
C14_VerticalOnTie ==
    pc = "done" =>
       /\ OnCorner(ret.circle, ret.rect) =>
             /\ ret.collision.collided
             /\ ret.collision.side =
                   (IF ret.circle.y = ret.rect.y THEN "top" ELSE "bottom")
       /\ (/\ ret.collision.collided
           /\ ret.circle.radius - Abs(ret.collision.dx)
                 = ret.circle.radius - Abs(ret.collision.dy)) =>
             ret.collision.side \in {"top", "bottom"}

\* a ball-sized circle on the lower right corner of a brick
C14_Witness ==
    /\ pc = "done"
    /\ ret.circle.radius = BallR
    /\ ret.rect.width = Px(BRICK_WIDTH)
    /\ ret.circle.x = ret.rect.x + ret.rect.width
    /\ ret.circle.y = ret.rect.y + ret.rect.height
    /\ ret.collision.collided
    /\ ret.collision.side = "bottom"

-----------------------------------------------------------------------------
(* A ball coming down on the paddle: checkBallPaddle and resolveBallPaddle *)
(* on balls across, beside and above the paddle                            *)

BouncePaddles ==
    {[Paddle_new EXCEPT !.x = x] : x \in {0, Px(900), Px(CANVAS_WIDTH) - baseWidth}}
    \cup {[Paddle_extend(Paddle_new) EXCEPT !.x = Px(382)]}

\* ball centres from the paddle's left edge on, the ball's box reaching the
\* paddle from BallR before it to BallR after it
BounceOffsets(width) ==
    {-BallR, 1 - BallR, -1, 0, 1, width \div 4, width \div 2, (3 * width) \div 4,
     width - 1, width, width + 1, width + BallR - 1, width + BallR}

BounceHeights == {PaddleY - BallR, PaddleY - BallR + 1, PaddleY + BallR}

\* falling steeply, at a slant, level, and rising
FallAngles == {0, 30, 90, 180}
FallSpeeds == {BASE_SPEED, 790, MAX_SPEED}

InitBounce ==
    /\ \E paddle \in BouncePaddles, y \in BounceHeights, angle \in FallAngles :
          \E ox \in BounceOffsets(paddle.width), speed \in FallSpeeds :
             LET ball == [Ball_new(paddle.x + ox, y) EXCEPT !.state = "launched",
                                                             !.speed = speed]
                 falling == Ball_setVelocityAngle(ball, 180 - angle)
             IN /\ game = [Game_new EXCEPT !.state = "playing", !.paddle = paddle,
                                           !.balls = <<falling>>]
                /\ ret = [ball |-> falling, collision |-> NoCollision]
    /\ input = Input_new
    /\ lastTime = 0
    /\ accumulator = 0
    /\ pc = "idle"
    /\ now = 0
    /\ rnd = FirstDraw
    /\ ticks = 0
    /\ waited = 0
    /\ seen = <<>>
    /\ dropped = 0

\* the ball-paddle part of checkCollisions
BallPaddle ==
    /\ pc = "idle"
    /\ pc' = "done"
    /\ LET collision == checkBallPaddle(game.balls[1], game.paddle)
       IN /\ ret' = [ret EXCEPT !.collision = collision]
          /\ game' = [game EXCEPT !.balls[1] =
                         resolveBallPaddle(game.balls[1], game.paddle, collision)]
    /\ UNCHANGED <<input, lastTime, accumulator, now, rnd, ticks, waited, seen,
                   dropped>>

NextBounce == BallPaddle

SpecBounce == InitBounce /\ [][NextBounce]_vars

\* C15: the bounce angle of a detected collision is hitPos x 60 degrees with
\* hitPos = 2 (ball.x - paddle.x) / paddle.width - 1 (in thousandths here);
\* a ball over the paddle's centre leaves straight up with dy = -speed, and a
\* ball over the paddle's left edge leaves at -60 degrees.
C15_BounceAngle ==
    (pc = "done" /\ ret.collision.collided) =>
       LET offset == ret.ball.x - game.paddle.x
           hitPos == (2000 * offset) \div game.paddle.width - 1000
       IN /\ ret.collision.hitPosition = hitPos
          /\ ret.collision.angle = Round(hitPos * 60, 1000)
          /\ 2 * offset = game.paddle.width =>
                /\ ret.collision.angle = 0
                /\ game.balls[1].dx = 0
                /\ game.balls[1].dy = -ret.ball.speed
          /\ offset = 0 =>
                /\ ret.collision.angle = -60
                /\ game.balls[1].dx < 0
                /\ game.balls[1].dy < 0

\* the ball at x = 960 on the paddle spanning 900..1020
C15_Witness ==
    /\ pc = "done"
    /\ ret.collision.collided
    /\ game.paddle.x = Px(900)
    /\ game.paddle.width = Px(120)
    /\ ret.ball.x = Px(960)
    /\ ret.ball.dx # 0
    /\ game.balls[1].dx = 0
    /\ game.balls[1].dy = -BASE_SPEED

\* C16: in every collision checkBallPaddle detects, hitPos is within -1..1
\* and the bounce angle within -60..60 degrees.
C16_HitPosInRange ==
    (pc = "done" /\ ret.collision.collided) =>
       /\ ret.collision.hitPosition >= -1000
       /\ ret.collision.hitPosition <= 1000
       /\ ret.collision.angle >= -60
       /\ ret.collision.angle <= 60

\* C27: the paddle bounces a ball only while it moves down (dy > 0). After
\* the bounce the ball moves up (dy < 0), its centre is half a ball above the
\* paddle's top so its box no longer overlaps the paddle, and its speed is
\* min(speed * 1.02, MAX_SPEED); the next check of this ball, before or after
\* it has moved on, detects nothing. A ball that is not bounced is left as
\* it was.
C27_BouncedOnce ==
    pc = "done" =>
       IF ret.collision.collided
       THEN /\ ret.ball.dy > 0
            /\ game.balls[1].dy < 0
            /\ game.balls[1].y = PaddleY - BallR
            /\ game.balls[1].x = ret.ball.x
            /\ ~checkAABB(Ball_getBounds(game.balls[1]), Paddle_getBounds(game.paddle))
            /\ game.balls[1].speed = Min((ret.ball.speed * 102) \div 100, MAX_SPEED)
            /\ ~checkBallPaddle(game.balls[1], game.paddle).collided
            /\ ~checkBallPaddle(Ball_update(game.balls[1]), game.paddle).collided
       ELSE game.balls[1] = ret.ball

\* a ball at 790 px/s sunk into the paddle by its whole height, lifted out
\* and capped at MAX_SPEED
C27_Witness ==
    /\ pc = "done"
    /\ ret.collision.collided
    /\ ret.ball.y = PaddleY + BallR
    /\ ret.ball.speed = 790
    /\ ret.ball.dx # 0
    /\ game.balls[1].y = PaddleY - BallR
    /\ game.balls[1].speed = MAX_SPEED
    /\ game.balls[1].dy < 0

-----------------------------------------------------------------------------
(* move and moveTo on paddles of both widths, anywhere extend() and its    *)
(* timeout can have left them                                              *)

MaxMoves == 2
MoveDirections == {-1, 0, 1}
\* deltaTime in ticks: none, one tick, a second, a minute
MoveSteps == {0, 1, 60, 3600}
MoveTargets == {-Px(100), 0, Px(382), Px(CANVAS_WIDTH) - Px(60), Px(CANVAS_WIDTH),
                Px(CANVAS_WIDTH) + Px(100)}

InitMove ==
    /\ game = [Game_new EXCEPT !.state = "playing"]
    /\ input = Input_new
    /\ lastTime = 0
    /\ accumulator = 0
    /\ pc = "idle"
    /\ now = 0
    /\ ret = "none"
    /\ rnd = FirstDraw
    /\ ticks = 0
    /\ waited = 0
    /\ seen = <<>>
    /\ dropped = 0

moveRest == <<input, lastTime, accumulator, pc, now, rnd, waited, seen, dropped>>

MoveKey ==
    /\ ticks < MaxMoves
    /\ \E direction \in MoveDirections, dt \in MoveSteps :
          game' = [game EXCEPT !.paddle = Paddle_move(game.paddle, direction, dt)]
    /\ ret' = "move"
    /\ ticks' = ticks + 1
    /\ UNCHANGED moveRest

MovePointer ==
    /\ ticks < MaxMoves
    /\ \E targetX \in MoveTargets :
          game' = [game EXCEPT !.paddle = Paddle_moveTo(game.paddle, targetX)]
    /\ ret' = "moveTo"
    /\ ticks' = ticks + 1
    /\ UNCHANGED moveRest

MoveExtend ==
    /\ Len(game.timers) < MaxTimers
    /\ game' = [game EXCEPT !.paddle = Paddle_extend(game.paddle),
                            !.timers = Append(game.timers, now + Ms(POWERUP_DURATION))]
    /\ ret' = "extend"
    /\ UNCHANGED <<ticks>>
    /\ UNCHANGED moveRest

MoveExtendTimeout ==
    /\ Len(game.timers) > 0
    /\ game' = [game EXCEPT !.paddle = Paddle_extendTimeout(game.paddle),
                            !.timers = Tail(game.timers)]
    /\ ret' = "timeout"
    /\ UNCHANGED <<ticks>>
    /\ UNCHANGED moveRest

NextMove == MoveKey \/ MovePointer \/ MoveExtend \/ MoveExtendTimeout

SpecMove == InitMove /\ [][NextMove]_vars

\* C17: right after move(direction, dt) or moveTo(targetX) returns, for
\* every direction in -1..1, every dt >= 0 and every target, the paddle is
\* inside the field: 0 <= x <= fieldWidth - width.
C17_MoveClamped ==
    ret \in {"move", "moveTo"} =>
       /\ 0 <= game.paddle.x
       /\ game.paddle.x <= Px(CANVAS_WIDTH) - game.paddle.width

-----------------------------------------------------------------------------
(* An enemy by the left wall, beside the bricks, with a ball coming up     *)
(* under it and a laser shot on its way                                    *)

MaxEnemyTicks == 4
MaxLasers == 4
EnemyBallX == {Px(90), Px(120)}

\* two pairs of projectiles fired a tick apart from a paddle at x = 105, the
\* left one of each pair on its way to the enemy
ShotsBelow(enemy) ==
    LET y == enemy.y + Px(ENEMY_HEIGHT) + 300
    IN <<[x |-> Px(110), y |-> y], [x |-> Px(220), y |-> y],
         [x |-> Px(110), y |-> y + 600], [x |-> Px(220), y |-> y + 600]>>

InitEnemy ==
    /\ \E visible \in BOOLEAN, shots \in 0..2, x \in EnemyBallX :
          LET loaded == Game_loadLevel([Game_new EXCEPT !.state = "playing"],
                                       0, 0, FirstDraw)
              there == [loaded.enemies[1] EXCEPT !.x = Px(100),
                                                 !.dx = -ENEMY_SPEED,
                                                 !.direction = -1]
              enemy == IF visible THEN there ELSE Enemy_disappear(there)
              ball == [Ball_new(x, enemy.y + Px(ENEMY_HEIGHT) + BallR + 600)
                         EXCEPT !.state = "launched"]
          IN game = [loaded EXCEPT
                       !.enemies = <<enemy>>,
                       !.balls = <<Ball_setVelocityAngle(ball, 0)>>,
                       !.paddle = Paddle_enableLaser(loaded.paddle,
                                                     Ms(POWERUP_DURATION)),
                       !.lasers = SubSeq(ShotsBelow(enemy), 1, 2 * shots)]
    /\ input = Input_new
    /\ lastTime = 0
    /\ accumulator = 0
    /\ pc = "idle"
    /\ now = 0
    /\ ret = [accumulator |-> 0, elapsed |-> 0, ticks |-> 0]
    /\ rnd = FirstDraw
    /\ ticks = 0
    /\ waited = 0
    /\ seen = <<>>
    /\ dropped = 0

\* game.fireLaser(), between two frames
EnemyFire ==
    /\ pc = "idle"
    /\ Len(game.lasers) + 2 <= MaxLasers
    /\ game' = Game_fireLaser(game)
    /\ UNCHANGED <<input, lastTime, accumulator, pc, now, ret, rnd, ticks, waited,
                   seen, dropped>>

EnemyFrames == GameLoop({FRAME_TIME}, MaxEnemyTicks, 0, 0)
EnemyTicks == Tick(DrawsFew)

NextEnemy == EnemyFire \/ EnemyFrames \/ EnemyTicks

SpecEnemy == InitEnemy /\ [][NextEnemy]_vars

\* the ball's box and the enemy's overlap
OnEnemy(ball, enemy) ==
    checkAABB(Ball_getBounds(ball),
              [x |-> enemy.x, y |-> enemy.y,
               width |-> Px(ENEMY_WIDTH), height |-> Px(ENEMY_HEIGHT)])

\* C19: a ball in free flight (away from walls, bricks and paddle) changes
\* its velocity in a tick only on an enemy that was active before the tick
\* and is visible in it, and a projectile is absorbed only by such an enemy:
\* an enemy that is destroyed or invisible deflects and absorbs nothing.
C19_NoCollisionWithGoneEnemy ==
    [][(ticks' = ticks + 1 /\ game.state = "playing") =>
          /\ (/\ Len(game.balls) = 1
              /\ Len(game'.balls) = 1
              /\ game.balls[1].state = "launched"
              /\ game'.balls[1].x < Px(BRICK_OFFSET_X) - BallR
              /\ game'.balls[1].x > BallR
              /\ game'.balls[1].y > BallR
              /\ game'.balls[1].y < PaddleY - Px(100)
              /\ <<game'.balls[1].dx, game'.balls[1].dy>>
                    # <<game.balls[1].dx, game.balls[1].dy>>) =>
                \E j \in DOMAIN game.enemies :
                   /\ game.enemies[j].active
                   /\ game'.enemies[j].visible
                   /\ OnEnemy(game'.balls[1], game'.enemies[j])
          /\ (\E l \in DOMAIN game'.lasers : game'.lasers[l].y = -Px(100)) =>
                \E j \in DOMAIN game.enemies :
                   /\ game.enemies[j].active
                   /\ game'.enemies[j].visible
                   /\ ~game'.enemies[j].active]_vars

-----------------------------------------------------------------------------
(* Two balls coming up under the same brick of the bottom row, side by     *)
(* side or one a tick behind the other                                     *)

MaxPairTicks == 3
PairLag == {0, BASE_SPEED}

\* the bricks of the pattern's last row
PatternBottom(bricks) ==
    {i \in DOMAIN bricks : \A j \in DOMAIN bricks : bricks[j].y <= bricks[i].y}

InitPair ==
    /\ \E levelIndex \in 0..(totalLevels - 1), lag \in PairLag :
          \E under \in PatternBottom(LevelManager_loadLevel(levelIndex)) :
             LET loaded == Game_loadLevel([Game_new EXCEPT !.state = "playing"],
                                          levelIndex, 0, FirstDraw)
                 first == BelowBrick(loaded.bricks[under])
                 second == [first EXCEPT !.x = @ + Px(20), !.y = @ + lag]
             IN /\ ~LevelManager_isLevelComplete(
                        LastRow(levelIndex, Len(LEVEL_PATTERNS[levelIndex + 1])))
                /\ game = [loaded EXCEPT
                          !.bricks = LastRow(levelIndex, Len(LEVEL_PATTERNS[levelIndex + 1])),
                          !.balls = <<Ball_setVelocityAngle(first, 0),
                                      Ball_setVelocityAngle(second, 0)>>]
    /\ input = Input_new
    /\ lastTime = 0
    /\ accumulator = 0
    /\ pc = "idle"
    /\ now = 0
    /\ ret = [accumulator |-> 0, elapsed |-> 0, ticks |-> 0]
    /\ rnd = FirstDraw
    /\ ticks = 0
    /\ waited = 0
    /\ seen = <<>>
    /\ dropped = 0

PairFrames == GameLoop({FRAME_TIME}, MaxPairTicks, 0, 0)
PairTicks == Tick(DrawsFew)

NextPair == PairFrames \/ PairTicks

SpecPair == InitPair /\ [][NextPair]_vars

\* the bricks the ball's circle reaches, active or not
Reached(ball, bricks) ==
    {i \in DOMAIN bricks :
        checkCircleRect([x |-> ball.x, y |-> ball.y, radius |-> BallR],
                        [x |-> bricks[i].x, y |-> bricks[i].y,
                         width |-> Px(BRICK_WIDTH),
                         height |-> Px(BRICK_HEIGHT)]).collided}

\* C18: a brick with active = false takes part in no collision. In every
\* tick the inactive bricks stay as they are (hit() is not called on them),
\* no brick is hit below zero hits in the tick that destroys it, and a ball
\* that reaches only bricks that are inactive at its turn, those an earlier
\* ball destroyed in the same tick included (one hit left, and the first
\* brick that earlier ball reaches), flies on unreflected.
C18_InactiveBrickOutOfPlay ==
    [][(ticks' = ticks + 1 /\ game.state = "playing" /\ game'.level = game.level
        /\ Len(game'.balls) = Len(game.balls)) =>
          /\ \A i \in DOMAIN game.bricks :
                /\ ~game.bricks[i].active => game'.bricks[i] = game.bricks[i]
                /\ ~game.bricks[i].indestructible => game'.bricks[i].hits >= 0
          /\ \A k \in DOMAIN game.balls :
                LET flown == [game.balls[k] EXCEPT !.x = @ + game.balls[k].dx,
                                                   !.y = @ + game.balls[k].dy]
                IN (/\ Reached(flown, game.bricks) # {}
                    /\ \A i \in Reached(flown, game.bricks) :
                          \/ ~game.bricks[i].active
                          \/ /\ game.bricks[i].hits = 1
                             /\ \E e \in 1..(k - 1) :
                                   i \in seen'[e] /\ \A j \in seen'[e] : i <= j) =>
                      /\ game'.balls[k].x = flown.x
                      /\ game'.balls[k].y = flown.y
                      /\ game'.balls[k].dx = game.balls[k].dx
                      /\ game'.balls[k].dy = game.balls[k].dy]_vars

\* the second ball inside the brick the first ball has destroyed in the same
\* tick, still on its way up
C18_Witness ==
    /\ ticks = 1
    /\ Len(game.balls) = 2
    /\ Len(seen) = 2
    /\ \E i \in seen[1] \cap seen[2] :
          /\ ~game.bricks[i].active
          /\ game.bricks[i].hits = 0
          /\ i \in Reached(game.balls[2], game.bricks)
    /\ game.balls[1].dy > 0
    /\ game.balls[2].dy < 0

-----------------------------------------------------------------------------
(* Extend power-ups over time: extend(), its timeouts running when they    *)
(* are due, and reset(), with the clock moving between them                *)

MaxExtendTime == 3
ExtendSteps == {Ms(2500), Ms(5000)}

\* ret is the time at which the latest Extend is to end, -1 when there is
\* none since the last reset
InitExtend ==
    /\ game = [Game_new EXCEPT !.state = "playing"]
    /\ input = Input_new
    /\ lastTime = 0
    /\ accumulator = 0
    /\ pc = "idle"
    /\ now = 0
    /\ ret = -1
    /\ rnd = FirstDraw
    /\ ticks = 0
    /\ waited = 0
    /\ seen = <<>>
    /\ dropped = 0

extendRest == <<input, lastTime, accumulator, pc, rnd, ticks, waited, seen, dropped>>

\* activatePowerUp for an Extend: paddle.extend(DURATION)
ExtendCatch ==
    /\ Len(game.timers) < MaxTimers
    /\ game' = [game EXCEPT !.paddle = Paddle_extend(game.paddle),
                            !.timers = Append(game.timers, now + Ms(POWERUP_DURATION))]
    /\ ret' = now + Ms(POWERUP_DURATION)
    /\ UNCHANGED now
    /\ UNCHANGED extendRest

\* the timeout of the oldest extend() runs when it is due
ExtendTimeout ==
    /\ Len(game.timers) > 0
    /\ now >= Head(game.timers)
    /\ game' = [game EXCEPT !.paddle = Paddle_extendTimeout(game.paddle),
                            !.timers = Tail(game.timers)]
    /\ UNCHANGED <<now, ret>>
    /\ UNCHANGED extendRest

\* paddle.reset(), as loadLevel calls it; the timeouts stay scheduled
ExtendReset ==
    /\ game.paddle.width # baseWidth
    /\ game' = [game EXCEPT !.paddle = Paddle_reset(game.paddle)]
    /\ ret' = -1
    /\ UNCHANGED now
    /\ UNCHANGED extendRest

\* the clock moves on, up to the next timeout that is due
ExtendTime ==
    /\ \E step \in ExtendSteps :
          /\ now + step <= MaxExtendTime * Ms(POWERUP_DURATION)
          /\ Len(game.timers) > 0 => now + step <= Head(game.timers)
          /\ now' = now + step
    /\ UNCHANGED <<game, ret>>
    /\ UNCHANGED extendRest

NextExtend == ExtendCatch \/ ExtendTimeout \/ ExtendReset \/ ExtendTime

SpecExtend == InitExtend /\ [][NextExtend]_vars

\* C22: from an Extend until its duration has passed the paddle has 1.5
\* times the base width, and after that it has the base width again, in
\* whatever order timeouts, further Extends and resets come.
C22_ExtendLastsItsDuration ==
    /\ (ret # -1 /\ now < ret) => game.paddle.width = (baseWidth * 3) \div 2
    /\ (ret # -1 /\ now > ret) => game.paddle.width = baseWidth

-----------------------------------------------------------------------------
(* increaseSpeed on a ball flying in any direction: up from the paddle or  *)
(* an enemy, reflected by a wall or a brick, at any speed                  *)

SpeedAngles == {0, 30, 45, 59, -60}

InitSpeed ==
    /\ \E k \in 0..MaxSpeedUps, angle \in SpeedAngles,
          bounced \in BOOLEAN, flipX \in {-1, 1}, flipY \in {-1, 1} :
          LET ball == [Ball_new(Px(382), Px(400)) EXCEPT !.state = "launched",
                                                         !.speed = SpeedAfter(k)]
              up == IF bounced
                    THEN resolveBallPaddle(ball, Paddle_new,
                                           [collided |-> TRUE, angle |-> angle])
                    ELSE Ball_setVelocityAngle(ball, angle)
              flying == [up EXCEPT !.dx = flipX * @, !.dy = flipY * @]
          IN /\ game = [Game_new EXCEPT !.state = "playing", !.balls = <<flying>>]
             /\ ret = flying
    /\ input = Input_new
    /\ lastTime = 0
    /\ accumulator = 0
    /\ pc = "idle"
    /\ now = 0
    /\ rnd = FirstDraw
    /\ ticks = 0
    /\ waited = 0
    /\ seen = <<>>
    /\ dropped = 0

\* ball.increaseSpeed(1.05), as checkCollisions calls it
SpeedUp ==
    /\ pc = "idle"
    /\ pc' = "done"
    /\ game' = [game EXCEPT !.balls[1] = Ball_increaseSpeed(game.balls[1], 105)]
    /\ UNCHANGED <<input, lastTime, accumulator, now, ret, rnd, ticks, waited,
                   seen, dropped>>

NextSpeed == SpeedUp

SpecSpeed == InitSpeed /\ [][NextSpeed]_vars

\* C23: increaseSpeed(m) sets speed to min(speed * m, MAX_SPEED) and keeps
\* the direction: the new velocity is a positive multiple of the old one
\* (here: the two are parallel up to the rounding of the components to
\* whole units, and point the same way).
C23_SpeedUpKeepsDirection ==
    pc = "done" =>
       LET old == ret
           new == game.balls[1]
       IN /\ new.speed = Min((old.speed * 105) \div 100, MAX_SPEED)
          /\ old.dx * new.dx + old.dy * new.dy > 0
          /\ Abs(old.dx * new.dy - old.dy * new.dx) <= old.speed + new.speed
          /\ old.dx # 0 => old.dx * new.dx > 0
          /\ old.dy # 0 => old.dy * new.dy > 0

\* a ball on its way down and to the left, faster afterwards
C23_Witness ==
    /\ pc = "done"
    /\ ret.dx < 0
    /\ ret.dy > 0
    /\ game.balls[1].dx < ret.dx
    /\ game.balls[1].dy > ret.dy
    /\ game.balls[1].speed > ret.speed
    /\ game.balls[1].speed < MAX_SPEED

\* C24: a projectile inside a visible, active enemy at collision checking
\* destroys it, is moved off the field and is gone after the next laser
\* update, and adds exactly 50 to the score; no projectile destroys two
\* enemies and a destroyed enemy gives no second bonus. (No brick is in reach
\* of the ball here, so the score changes by enemies only.)
C24_LaserDestroysEnemy ==
    [][(ticks' = ticks + 1 /\ game.state = "playing") =>
          LET destroyed == {j \in DOMAIN game.enemies :
                               game.enemies[j].active /\ ~game'.enemies[j].active}
              absorbed == {l \in DOMAIN game'.lasers : game'.lasers[l].y = -Px(100)}
              flown == Game_updateLasers(game).lasers
          IN /\ game'.score = game.score + 50 * Cardinality(destroyed)
             /\ Cardinality(absorbed) = Cardinality(destroyed)
             /\ \A l \in DOMAIN game'.lasers :
                   l \in absorbed \/ game'.lasers[l].y > -Px(10)
             /\ \A j \in DOMAIN game.enemies :
                   /\ ~game.enemies[j].active => ~game'.enemies[j].active
                   /\ (/\ game.enemies[j].active
                       /\ game'.enemies[j].visible
                       /\ \E l \in DOMAIN flown :
                             /\ flown[l].x >= game'.enemies[j].x
                             /\ flown[l].x <= game'.enemies[j].x + Px(ENEMY_WIDTH)
                             /\ flown[l].y >= game'.enemies[j].y
                             /\ flown[l].y <= game'.enemies[j].y + Px(ENEMY_HEIGHT))
                      => j \in destroyed
                   /\ j \in destroyed => game'.enemies[j].visible]_vars

\* the enemy destroyed for 50 points, the first projectile gone and the one
\* fired after it inside the destroyed enemy
C24_Witness ==
    /\ ticks = 2
    /\ game.score = 50
    /\ ~game.enemies[1].active
    /\ game.enemies[1].visible
    /\ \A l \in DOMAIN game.lasers : game.lasers[l].y > 0
    /\ \E l \in DOMAIN game.lasers :
          Enemy_checkLaserCollision(game.enemies[1], game.lasers[l].x, game.lasers[l].y)

-----------------------------------------------------------------------------
(* Enemies over a minute of wall-clock time: a level waiting for the       *)
(* launch, frames that tick and late frames that only move the clock       *)

MaxWatchTicks == 5
MaxWatchDropped == 13
WatchLevels == {0, 1, 3}
WatchDeltas == {FRAME_TIME, Ms(5000)}

InitWatch ==
    /\ \E levelIndex \in WatchLevels :
          game = Game_loadLevel([Game_new EXCEPT !.state = "playing"],
                                levelIndex, 0, FirstDraw)
    /\ input = Input_new
    /\ lastTime = 0
    /\ accumulator = 0
    /\ pc = "idle"
    /\ now = 0
    /\ ret = [accumulator |-> 0, elapsed |-> 0, ticks |-> 0]
    /\ rnd = FirstDraw
    /\ ticks = 0
    /\ waited = 0
    /\ seen = <<>>
    /\ dropped = 0

WatchFrames == GameLoop(WatchDeltas, MaxWatchTicks, MaxWatchTicks, MaxWatchDropped)
WatchTicks == Tick(DrawsFew)

NextWatch == WatchFrames \/ WatchTicks

SpecWatch == InitWatch /\ [][NextWatch]_vars

\* C26: enemies alternate as time passes over the ticks. After a tick an
\* enemy that is visible has appeared less than 25 s ago (its window, drawn
\* from 15 s to 25 s, has not ended), and an enemy that is hidden has not
\* yet reached APPEAR_DELAY or was hidden by this very tick; so none stays
\* visible for good.
C26_EnemiesAlternate ==
    [][(ticks' = ticks + 1 /\ game.state = "playing") =>
          \A i \in DOMAIN game'.enemies :
             IF game'.enemies[i].visible
             THEN now - game'.enemies[i].appearTime < Ms(25000)
             ELSE \/ now - game'.enemies[i].appearTime < Ms(APPEAR_DELAY)
                  \/ game.enemies[i].visible]_vars

-----------------------------------------------------------------------------
(* A ball on, around and inside one brick: checkBallBrick and              *)
(* resolveBallBrick                                                        *)

ResolveBricks ==
    {Brick_new(Px(BRICK_OFFSET_X), Px(BRICK_OFFSET_Y), "double"),
     Brick_new(Px(BRICK_OFFSET_X) + 3 * Px(BRICK_WIDTH + BRICK_PADDING),
               Px(BRICK_OFFSET_Y) + 2 * Px(BRICK_HEIGHT + BRICK_PADDING),
               "indestructible")}
ResolveAngles == {30, 150, -30, -150}

InitResolve ==
    /\ \E brick \in ResolveBricks, angle \in ResolveAngles :
          \E ox \in CircleOffsets(Px(BRICK_WIDTH), BallR),
             oy \in CircleOffsets(Px(BRICK_HEIGHT), BallR) :
             LET ball == [Ball_new(brick.x + ox, brick.y + oy) EXCEPT
                             !.state = "launched"]
                 flying == Ball_setVelocityAngle(ball, angle)
             IN /\ game = [Game_new EXCEPT !.state = "playing", !.bricks = <<brick>>,
                                           !.balls = <<flying>>]
                /\ ret = [ball |-> flying, collision |-> NoCollision]
    /\ input = Input_new
    /\ lastTime = 0
    /\ accumulator = 0
    /\ pc = "idle"
    /\ now = 0
    /\ rnd = FirstDraw
    /\ ticks = 0
    /\ waited = 0
    /\ seen = <<>>
    /\ dropped = 0

\* the check and the repositioning of checkCollisions for one ball and brick
BallBrick ==
    /\ pc = "idle"
    /\ pc' = "done"
    /\ LET collision == checkBallBrick(game.balls[1], game.bricks[1])
       IN /\ ret' = [ret EXCEPT !.collision = collision]
          /\ game' = [game EXCEPT !.balls[1] =
                         resolveBallBrick(game.balls[1], game.bricks[1], collision)]
    /\ UNCHANGED <<input, lastTime, accumulator, now, rnd, ticks, waited, seen,
                   dropped>>

NextResolve == BallBrick

SpecResolve == InitResolve /\ [][NextResolve]_vars

\* C28: after resolveBallBrick the ball touches the brick edge named by the
\* collision's side from outside (its rim on the edge, the other coordinate
\* unchanged), the velocity component across that edge is reversed, and
\* checkBallBrick on the repositioned ball and the same brick, still active,
\* reports no collision; wherever the ball was, corners and the brick's
\* inside included.
C28_FlushAndClear ==
    (pc = "done" /\ ret.collision.collided) =>
       LET ball == game.balls[1]
           brick == game.bricks[1]
           side == ret.collision.side
       IN /\ brick.active
          /\ side = "top" => ball.y + BallR = brick.y
          /\ side = "bottom" => ball.y - BallR = brick.y + Px(BRICK_HEIGHT)
          /\ side = "left" => ball.x + BallR = brick.x
          /\ side = "right" => ball.x - BallR = brick.x + Px(BRICK_WIDTH)
          /\ side \in {"top", "bottom"} =>
                /\ ball.x = ret.ball.x
                /\ ball.dy = -ret.ball.dy
                /\ ball.dx = ret.ball.dx
          /\ side \in {"left", "right"} =>
                /\ ball.y = ret.ball.y
                /\ ball.dx = -ret.ball.dx
                /\ ball.dy = ret.ball.dy
          /\ ~checkBallBrick(ball, brick).collided

\* a ball whose centre was inside the brick, in its lower half, put below it
C28_Witness ==
    /\ pc = "done"
    /\ ret.collision.collided
    /\ ret.collision.side = "bottom"
    /\ ret.ball.x > game.bricks[1].x
    /\ ret.ball.x < game.bricks[1].x + Px(BRICK_WIDTH)
    /\ ret.ball.y > game.bricks[1].y
    /\ ret.ball.y < game.bricks[1].y + Px(BRICK_HEIGHT)
    /\ game.balls[1].y = game.bricks[1].y + Px(BRICK_HEIGHT) + BallR

-----------------------------------------------------------------------------
(* init(): the input callbacks are registered, then init awaits the sounds *)
(* and only afterwards creates levelManager and paddle and requests the    *)
(* first frame.  pc = "loading" while init waits.                          *)

\* startGame() while levelManager is null: loadLevel(0) sets level and throws
\* at this.levelManager.loadLevel, which ends the callback
Game_startGameEarly(g) ==
    [g EXCEPT !.state = "playing", !.score = 0, !.lives = INITIAL_LIVES,
              !.level = 0, !.bricksDestroyed = 0]

Game_handleSpaceEarly(g) ==
    IF g.state \in {"menu", "gameover"} THEN Game_startGameEarly(g)
    ELSE Game_handleSpace(g, 0, FirstDraw)

InitLoading ==
    /\ game = Game_new
    /\ input = Input_new
    /\ lastTime = 0
    /\ accumulator = 0
    /\ pc = "loading"
    /\ now = 0
    /\ ret = [accumulator |-> 0, elapsed |-> 0, ticks |-> 0]
    /\ rnd = FirstDraw
    /\ ticks = 0
    /\ waited = 0
    /\ seen = <<>>
    /\ dropped = 0

LoadingSpaceDown ==
    /\ pc = "loading"
    /\ ~input.space
    /\ input' = [input EXCEPT !.space = TRUE]
    /\ game' = Game_handleSpaceEarly(game)
    /\ UNCHANGED <<lastTime, accumulator, pc, now, ret, rnd, ticks, waited, seen,
                   dropped>>

LoadingMouseDown ==
    /\ pc = "loading"
    /\ input' = [input EXCEPT !.mouseClicked = TRUE]
    /\ game' = Game_handleSpaceEarly(game)
    /\ UNCHANGED <<lastTime, accumulator, pc, now, ret, rnd, ticks, waited, seen,
                   dropped>>

\* loadAllSounds() settles: init creates levelManager (no bricks) and paddle
\* and requests the first frame
SoundsLoaded ==
    /\ pc = "loading"
    /\ pc' = "idle"
    /\ game' = [game EXCEPT !.bricks = <<>>, !.paddle = Paddle_new]
    /\ UNCHANGED <<input, lastTime, accumulator, now, ret, rnd, ticks, waited,
                   seen, dropped>>

NextLoading == LoadingSpaceDown \/ LoadingMouseDown \/ SoundsLoaded \/ NextLoop

SpecLoading == InitLoading /\ [][NextLoading]_vars

\* C29: while the phase is Playing a level is loaded (bricks present), and
\* every step that starts a game from Menu or GameOver leaves level 0,
\* INITIAL_LIVES lives, the bricks of the level and exactly one ball, attached;
\* also for a space press or click that arrives while init() awaits the sounds.
C29_PlayingHasLevel ==
    [][/\ game'.state = "playing" => Len(game'.bricks) > 0
       /\ (game.state \in {"menu", "gameover"} /\ game'.state = "playing") =>
             /\ game'.level = 0
             /\ game'.lives = INITIAL_LIVES
             /\ Len(game'.balls) = 1
             /\ game'.balls[1].state = "attached"]_vars

-----------------------------------------------------------------------------
(* The last ball in play falling out at the bottom while a power-up comes  *)
(* down on the paddle: a life lost, a new ball on the paddle, a catch      *)

MaxLifeTicks == 6
LifeLives == {1, 2, INITIAL_LIVES}
\* the ball leaves the field in the first tick or in the third
LifeDepths == {100, 1000}
LifePowerUps == {"none", "M", "S"}

InitLife ==
    /\ \E lives \in LifeLives, depth \in LifeDepths, type \in LifePowerUps :
          LET started == Game_handleSpace(Game_new, 0, FirstDraw)
              ball == [Ball_launch(started.balls[1], 180) EXCEPT
                          !.x = Px(100),
                          !.y = Px(CANVAS_HEIGHT) + Px(BALL_SIZE) - depth]
              falling == PowerUp_new(started.paddle.x,
                                     PaddleY - Px(POWERUP_HEIGHT) - 200, type)
          IN game = [started EXCEPT
                        !.lives = lives,
                        !.balls = <<ball>>,
                        !.powerUps = IF type = "none" THEN <<>> ELSE <<falling>>]
    /\ input = Input_new
    /\ lastTime = 0
    /\ accumulator = 0
    /\ pc = "idle"
    /\ now = 0
    /\ ret = [accumulator |-> 0, elapsed |-> 0, ticks |-> 0]
    /\ rnd = FirstDraw
    /\ ticks = 0
    /\ waited = 0
    /\ seen = <<>>
    /\ dropped = 0

LifeFrames == GameLoop({FRAME_TIME}, MaxLifeTicks, MaxLifeTicks, 0)

NextLife == LoopSpaceDown \/ SpaceUp \/ LifeFrames \/ LoopTicks

SpecLife == InitLife /\ [][NextLife]_vars

\* C30: between ticks and callbacks every ball is Attached or Launched, at
\* most one ball is Attached and that ball is the first of the list; a space
\* press during play leaves no ball Attached; and where the first ball is
\* Attached after having been Launched, it is the one new ball that a lost
\* life, a new level or a new game puts on the paddle.
C30_AttachedIsFirst ==
    [][/\ \A k \in DOMAIN game'.balls :
             /\ game'.balls[k].state \in {"attached", "launched"}
             /\ game'.balls[k].state = "attached" => k = 1
       /\ (input'.space /\ ~input.space /\ game.state = "playing") =>
             \A k \in DOMAIN game'.balls : game'.balls[k].state = "launched"
       /\ (/\ Len(game.balls) >= 1
           /\ Len(game'.balls) >= 1
           /\ game.balls[1].state = "launched"
           /\ game'.balls[1].state = "attached") =>
             /\ Len(game'.balls) = 1
             /\ \/ game'.lives = game.lives - 1
                \/ game'.level # game.level
                \/ game.state \in {"menu", "gameover"}]_vars

\* Multiball caught while the new ball waits on the paddle
C30_Witness ==
    /\ game.state = "playing"
    /\ game.lives = 1
    /\ Len(game.balls) = 3
    /\ game.balls[1].state = "attached"
    /\ game.balls[2].state = "launched"
    /\ game.balls[3].state = "launched"

-----------------------------------------------------------------------------
(* Lives over a game: from the menu, or with the last ball about to leave  *)
(* the field, through game over and a new game                             *)

InitLives == Init \/ InitLife

SpecLives == InitLives /\ [][NextLife]_vars

\* C31: lives stay within 0..INITIAL_LIVES, no step takes more than one
\* life, phase Playing has at least one life and phase GameOver has none, and
\* a tick run in phase Menu or GameOver changes neither lives nor score nor
\* level (nor anything else of the game).
C31_LivesInRange ==
    [][/\ game'.lives >= 0
       /\ game'.lives <= INITIAL_LIVES
       /\ game'.lives >= game.lives - 1
       /\ game'.state = "playing" => game'.lives >= 1
       /\ game'.state = "gameover" => game'.lives = 0
       /\ (ticks' = ticks + 1 /\ game.state \in {"menu", "gameover"}) =>
             /\ game'.lives = game.lives
             /\ game'.score = game.score
             /\ game'.level = game.level
             /\ game' = game]_vars

\* the last life lost, and ticks run after the game was over
C31_Witness ==
    /\ game.state = "gameover"
    /\ game.lives = 0
    /\ ticks >= 4
    /\ waited >= 1

-----------------------------------------------------------------------------
(* A ball that has just moved onto a corner of a brick from outside:       *)
(* checkBallBrick and resolveBallBrick                                     *)

\* centres up to 3 1/3 px outside the brick's sides
GrazeOffsets(length) == {-200, -100, length + 100, length + 200}
GrazeAngles == {30, 60, 120, 150, -30, -60, -120, -150}

\* the ball one Ball.update earlier, away from the walls
Ball_before(ball) == [ball EXCEPT !.x = ball.x - ball.dx, !.y = ball.y - ball.dy]

InitGraze ==
    /\ \E brick \in ResolveBricks, angle \in GrazeAngles :
          \E ox \in GrazeOffsets(Px(BRICK_WIDTH)), oy \in GrazeOffsets(Px(BRICK_HEIGHT)) :
             LET ball == [Ball_new(brick.x + ox, brick.y + oy) EXCEPT
                             !.state = "launched"]
                 flying == Ball_setVelocityAngle(ball, angle)
             IN /\ game = [Game_new EXCEPT !.state = "playing", !.bricks = <<brick>>,
                                           !.balls = <<flying>>]
                /\ ret = [ball |-> flying, collision |-> NoCollision]
    /\ input = Input_new
    /\ lastTime = 0
    /\ accumulator = 0
    /\ pc = "idle"
    /\ now = 0
    /\ rnd = FirstDraw
    /\ ticks = 0
    /\ waited = 0
    /\ seen = <<>>
    /\ dropped = 0

SpecGraze == InitGraze /\ [][NextResolve]_vars

\* C32: after a collision with a brick is resolved, the ball moves away from
\* the face it hit: up after top, down after bottom, to the left after left,
\* to the right after right; for every ball that reached the brick by its
\* last move (it did not touch the brick one update earlier).
C32_LeavesTheFace ==
    (/\ pc = "done"
     /\ ret.collision.collided
     /\ ~checkBallBrick(Ball_before(ret.ball), game.bricks[1]).collided) =>
       /\ ret.collision.side = "top" => game.balls[1].dy < 0
       /\ ret.collision.side = "bottom" => game.balls[1].dy > 0
       /\ ret.collision.side = "left" => game.balls[1].dx < 0
       /\ ret.collision.side = "right" => game.balls[1].dx > 0

====
